---- MODULE Spec2Model ----
(***************************************************************************)
(* The delayed-trigger debounce of notion-tools-bot: the Notion webhook     *)
(* handler (notion/webhook.ts), the trigger-status accessor                 *)
(* (models/triggerStatus.ts), the scheduled sweep (worker.ts) and the       *)
(* Telegram command handlers (telegram/bot.ts), over a key-value store      *)
(* holding the database registry and one trigger record per database id.    *)
(*                                                                          *)
(* Every await of the handlers is a step of its own: time may pass and the  *)
(* awaited call may fail between two steps.  Under Spec the invocations do  *)
(* not overlap (a handler runs to its end before the next one starts).      *)
(* The other specifications take one part each: SpecOverlap, SpecSweeps and *)
(* SpecBotOverlap let invocations overlap; SpecDue and SpecSkip run the     *)
(* sweep over given stores; SpecBot adds the Telegram commands; SpecHttp    *)
(* starts at the HTTP request; SpecRegistry runs the registry calls and     *)
(* SpecButtons the paging of the database list.                             *)
(***************************************************************************)
EXTENDS Integers, Sequences, FiniteSets, TLC

VARIABLES
    clock,       \* Date.now(), in milliseconds
    env,         \* the worker's Env bindings (constant during a run)
    registry,    \* the KV value under 'notion_databases': a list of databases
    triggers,    \* the KV values under 'trigger_status:<id>': key -> TriggerStatus
    inv,         \* the invocations in flight: slot -> handler position and locals
    lastNotify,  \* history: databaseId -> `now` of the last update whose put completed and
                 \*          whose record has not been deleted since (-1: none)
    fired,       \* history: databaseId -> automatic dispatches that succeeded since that update (capped)
    delFailed,   \* history: databaseId -> a kv.delete of its record failed since that update
    manual       \* history: databaseId -> dispatches made for it by confirm_trigger (capped)

vars == <<clock, env, manual, registry, triggers, inv, lastNotify, fired, delFailed>>

----------------------------------------------------------------------------
(* Bounds of the model *)

MaxTime == 7            \* the clock runs from 0 to MaxTime minutes

FiredCap == 2           \* the dispatch counter saturates here

MaxInv == 2             \* invocation slots

OverlapMaxTime == 2      \* the clock of the overlapping runs goes from 0 to OverlapMaxTime minutes

BotMaxTime == 1          \* the clock of the runs with Telegram updates goes from 0 to BotMaxTime minutes

MaxEntries == 4          \* the longest registry that a call adds to

MaxDbs == 12             \* the longest list of databases that is paged

MaxPage == 4             \* the highest page a callback asks for

ManualCap == 1           \* manual dispatches are counted up to ManualCap

(* Program constants *)

MsPerMinute == 60 * 1000

TRIGGER_STATUS_PREFIX == "trigger_status:"

DefaultDelay == <<"5">>

HorizonMs == MaxTime * MsPerMinute

InvIds == 1 .. MaxInv

----------------------------------------------------------------------------
(* Strings are sequences of one-character strings *)

Min(S) == CHOOSE x \in S : \A y \in S : x <= y

\* An id handling that keeps the hyphens
formatNotionIdKeep(id) == id

\* id.replace(/-/g, '')
formatNotionId(id) == SelectSeq(id, LAMBDA c : c # "-")

\* `${TRIGGER_STATUS_PREFIX}${databaseId}`
TriggerKey(databaseId) == <<TRIGGER_STATUS_PREFIX>> \o databaseId

\* String.prototype.split(sep): the list of segments between separators
RECURSIVE split(_, _)
split(s, sep) ==
    IF s = <<>> THEN << <<>> >>
    ELSE LET rest == split(Tail(s), sep)
         IN  IF Head(s) = sep
             THEN << <<>> >> \o rest
             ELSE << <<Head(s)>> \o rest[1] >> \o Tail(rest)

\* const [owner, repo] = githubRepoId.split('/'); (!owner || !repo) is the malformed case
Owner(githubRepoId) == split(githubRepoId, "/")[1]
Repo(githubRepoId) ==
    LET parts == split(githubRepoId, "/")
    IN  IF Len(parts) >= 2 THEN parts[2] ELSE <<>>
\* A target test that asks for the owner only
WellFormedOwnerOnly(githubRepoId) == Owner(githubRepoId) # <<>>

WellFormedRepoId(githubRepoId) == Owner(githubRepoId) # <<>> /\ Repo(githubRepoId) # <<>>

Digits == <<"0", "1", "2", "3", "4", "5", "6", "7", "8", "9">>
IsDigit(c) == \E d \in DOMAIN Digits : Digits[d] = c
DigitValue(c) == (CHOOSE d \in DOMAIN Digits : Digits[d] = c) - 1

\* parseInt(s, 10) on a string that starts with a digit: the leading digits' value
RECURSIVE parseDigits(_, _)
parseDigits(s, acc) ==
    IF s = <<>> \/ ~IsDigit(Head(s)) THEN acc
    ELSE parseDigits(Tail(s), acc * 10 + DigitValue(Head(s)))
parseInt(s) == parseDigits(s, 0)

\* A handler that takes a delay of 0 for a missing one
DelayMinutesOrDefault(e) ==
    LET minutes == parseInt(e.TRIGGER_DELAY_MINUTES)
    IN  IF minutes = 0 THEN parseInt(DefaultDelay) ELSE minutes

\* parseInt(env.TRIGGER_DELAY_MINUTES || '5', 10)
DelayMinutes(e) ==
    parseInt(IF e.TRIGGER_DELAY_MINUTES = <<>> THEN DefaultDelay ELSE e.TRIGGER_DELAY_MINUTES)

DelayMs(e) == DelayMinutes(e) * MsPerMinute

----------------------------------------------------------------------------
(* The environments, registry and requests the model draws from *)

EnvOf(admin, github, delay) ==
    [TELEGRAM_BOT_TOKEN |-> "bot", TELEGRAM_ADMIN_USER_ID |-> admin,
     GITHUB_TOKEN |-> github, TRIGGER_DELAY_MINUTES |-> delay]

Envs ==
    { EnvOf("100", "ghp", <<>>),        \* delay unset: the default
      EnvOf("100", "ghp", <<"0">>),
      EnvOf("100", "ghp", <<"2">>),
      EnvOf("", "ghp", <<"1">>),        \* no Telegram administrator configured
      EnvOf("100", "", <<"2">>) }       \* no GitHub token configured

Db(id, githubRepoId) == [id |-> id, githubRepoId |-> githubRepoId]

\* two linked databases (one stored with a hyphen in its id), one with a
\* malformed repository id and one without a repository
InitialRegistry ==
    << Db(<<"a", "-", "1">>, <<"o", "/", "r">>),
       Db(<<"m">>, <<"o", "/">>),
       Db(<<"u">>, <<>>),
       Db(<<"b", "2">>, <<"p", "/", "q">>) >>

\* body.data.parent.id of the update events: each registry id (the first one
\* with and without its hyphen, the last one with a hyphen the registry does
\* not hold), an unknown id and a missing id
RawIds == { <<"a", "-", "1">>, <<"a", "1">>, <<"m">>, <<"u">>, <<"b", "-", "2">>, <<"x">>, <<>> }

Ids == { formatNotionId(r) : r \in RawIds }

----------------------------------------------------------------------------
(* models/triggerStatus.ts *)

Status(databaseId, nextTriggerTime, now) ==
    [databaseId |-> databaseId, nextTriggerTime |-> nextTriggerTime,
     pending |-> TRUE, updatedAt |-> now]

\* A getTriggerStatus that answers a read error with a record that is due
getTriggerStatusFailDue(kv, databaseId, ok) ==
    IF ~ok THEN <<[databaseId |-> databaseId, nextTriggerTime |-> 0,
                   pending |-> TRUE, updatedAt |-> 0]>>
    ELSE IF TriggerKey(databaseId) \in DOMAIN kv
    THEN <<kv[TriggerKey(databaseId)]>>
    ELSE <<>>

\* kv.get(key, {type: 'json'}) inside getTriggerStatus: the record, or null
\* (the empty list) when the key is absent or the read fails (ok = FALSE)
getTriggerStatus(kv, databaseId, ok) ==
    IF ok /\ TriggerKey(databaseId) \in DOMAIN kv
    THEN <<kv[TriggerKey(databaseId)]>>
    ELSE <<>>

\* The earlier version of updateTriggerStatus: a pending record's deadline is
\* extended from its previous deadline
NextTriggerTimeExtend(currentStatus, now, delayMinutes) ==
    IF currentStatus # <<>> /\ currentStatus[1].pending
    THEN currentStatus[1].nextTriggerTime + delayMinutes * MsPerMinute
    ELSE now + delayMinutes * MsPerMinute

\* A debounce that keeps the deadline of a record that is already armed
NextTriggerTimeKeep(currentStatus, now, delayMinutes) ==
    IF currentStatus # <<>> /\ currentStatus[1].pending
    THEN currentStatus[1].nextTriggerTime
    ELSE now + delayMinutes * MsPerMinute

\* A debounce in which an update of an armed record makes it due at once
NextTriggerTimeImmediate(currentStatus, now, delayMinutes) ==
    IF currentStatus # <<>> /\ currentStatus[1].pending
    THEN now
    ELSE now + delayMinutes * MsPerMinute

\* updateTriggerStatus: const nextTriggerTime = now + (delayMinutes * 60 * 1000)
NextTriggerTime(currentStatus, now, delayMinutes) ==
    now + delayMinutes * MsPerMinute

\* An updateTriggerStatus that writes its new deadline into the record it read
putTriggerStatusMerge(kv, databaseId, currentStatus, now, delayMinutes) ==
    LET key == TriggerKey(databaseId)
        fresh == Status(databaseId, NextTriggerTime(currentStatus, now, delayMinutes), now)
        status == IF currentStatus = <<>> THEN fresh
                  ELSE [currentStatus[1] EXCEPT !.nextTriggerTime = fresh.nextTriggerTime]
    IN  [k \in DOMAIN kv \cup {key} |-> IF k = key THEN status ELSE kv[k]]

\* An updateTriggerStatus that leaves a record it finds under the key as it is
putTriggerStatusIfAbsent(kv, databaseId, currentStatus, now, delayMinutes) ==
    LET key == TriggerKey(databaseId)
        status == Status(databaseId, NextTriggerTime(currentStatus, now, delayMinutes), now)
    IN  IF key \in DOMAIN kv THEN kv
        ELSE [k \in DOMAIN kv \cup {key} |-> IF k = key THEN status ELSE kv[k]]

\* updateTriggerStatus: kv.put(key, JSON.stringify(status))
putTriggerStatus(kv, databaseId, currentStatus, now, delayMinutes) ==
    LET key == TriggerKey(databaseId)
        status == Status(databaseId, NextTriggerTime(currentStatus, now, delayMinutes), now)
    IN  [k \in DOMAIN kv \cup {key} |-> IF k = key THEN status ELSE kv[k]]

\* A clearTriggerStatus that leaves the key in place
clearTriggerStatusNoop(kv, databaseId) == kv

\* A clearTriggerStatus that builds its key without the prefix
clearTriggerStatusUnprefixed(kv, databaseId) ==
    [k \in DOMAIN kv \ {databaseId} |-> kv[k]]

\* A clearTriggerStatus that, finding no record, leaves a spent one behind
clearTriggerStatusToggle(kv, databaseId) ==
    LET key == TriggerKey(databaseId)
    IN  IF key \in DOMAIN kv
        THEN [k \in DOMAIN kv \ {key} |-> kv[k]]
        ELSE [k \in DOMAIN kv \cup {key} |->
                IF k = key
                THEN [databaseId |-> databaseId, nextTriggerTime |-> 0,
                      pending |-> FALSE, updatedAt |-> 0]
                ELSE kv[k]]

\* clearTriggerStatus: kv.delete(key)
clearTriggerStatus(kv, databaseId) ==
    [k \in DOMAIN kv \ {TriggerKey(databaseId)} |-> kv[k]]

\* The earlier version of canTriggerActions: no record means "fire now", and
\* the pending flag is not read
canTriggerActionsEarlier(status, now) ==
    IF status = <<>> THEN TRUE
    ELSE now >= status[1].nextTriggerTime

\* A due check that waits until the deadline is strictly in the past
canTriggerActionsStrict(status, now) ==
    IF status = <<>> THEN FALSE
    ELSE IF status[1].pending /\ now > status[1].nextTriggerTime THEN TRUE
    ELSE FALSE

\* A due check that reads the pending flag the wrong way round
canTriggerActionsInverted(status, now) ==
    IF status = <<>> THEN FALSE
    ELSE IF ~status[1].pending /\ now >= status[1].nextTriggerTime THEN TRUE
    ELSE FALSE

\* canTriggerActions, given what getTriggerStatus returned and Date.now()
canTriggerActions(status, now) ==
    IF status = <<>> THEN FALSE
    ELSE IF status[1].pending /\ now >= status[1].nextTriggerTime THEN TRUE
    ELSE FALSE

----------------------------------------------------------------------------
(* Invocations *)

\* kind, pc: the handler and the await it is at; raw .. due: the handler's
\* locals; status: the HTTP status answered; dispatched, failed, dueAtStart:
\* history of this invocation (the database ids whose dispatch returned, for
\* which a store or dispatch call failed, and which were due when a sweep began;
\* unsent: a Telegram message of this invocation could not be sent); query,
\* from, repoId: the command or callback of a Telegram update, its sender and
\* its repository argument; target: the owner/repo pairs a Telegram handler
\* dispatched to
Idle ==
    [kind |-> "idle", pc |-> "idle", raw |-> <<>>, databaseId |-> <<>>,
     database |-> <<>>, databases |-> <<>>, idx |-> 0, delayMinutes |-> 0,
     now |-> 0, currentStatus |-> <<>>, due |-> FALSE, status |-> 0,
     dispatched |-> {}, failed |-> {}, dueAtStart |-> {}, unsent |-> FALSE,
     query |-> "", from |-> "", repoId |-> <<>>, target |-> <<>>,
     request |-> <<>>, keyboard |-> <<>>]

Failed(r, databaseId) == [r EXCEPT !.failed = @ \cup {databaseId}]

Dispatched(r, databaseId) == [r EXCEPT !.dispatched = @ \cup {databaseId}]

Respond(r, status) == [r EXCEPT !.pc = "done", !.status = status]

\* no invocation is in flight
Quiet == \A j \in InvIds : inv[j].kind = "idle"

\* a new invocation takes the lowest free slot
FreeSlot(i) == inv[i].kind = "idle" /\ \A j \in InvIds : j < i => inv[j].kind # "idle"

\* databases.find(db => formatNotionId(db.id) === databaseId)
find(databases, databaseId) ==
    LET hits == { k \in DOMAIN databases : formatNotionId(databases[k].id) = databaseId }
    IN  IF hits = {} THEN <<>> ELSE <<databases[Min(hits)]>>

Bump(f, databaseId) == [f EXCEPT ![databaseId] = IF @ < FiredCap THEN @ + 1 ELSE @]

Others == <<clock, env, manual, registry, triggers, lastNotify, fired, delFailed>>

----------------------------------------------------------------------------
(* notion/webhook.ts: handleNotionWebhook -> handleDatabaseUpdate *)

\* A page.* or database.* event arrives.  A missing parent id is answered 400
\* at once; otherwise the handler awaits the registry.
Arrive(i, raw) ==
    /\ FreeSlot(i)
    /\ clock + DelayMs(env) <= HorizonMs
    /\ inv' = [inv EXCEPT ![i] =
                 IF raw = <<>>
                 THEN Respond([Idle EXCEPT !.kind = "webhook"], 400)
                 ELSE [Idle EXCEPT !.kind = "webhook", !.pc = "w_list", !.raw = raw,
                                   !.databaseId = formatNotionId(raw)]]
    /\ UNCHANGED Others

\* the same, while no other invocation is in flight
StartWebhook(i, raw) == Quiet /\ Arrive(i, raw)

\* A handler that does not test githubRepoId before splitting it
RejectNoLinkTest(updatedDatabase, e) ==
    IF updatedDatabase = <<>> THEN 200
    ELSE IF ~WellFormedRepoId(updatedDatabase[1].githubRepoId) THEN 400
    ELSE IF e.GITHUB_TOKEN = "" THEN 500
    ELSE 0

\* A handler that tests neither the owner/repo pair nor the token
RejectNoRouteTest(updatedDatabase, e) ==
    IF updatedDatabase = <<>> THEN 200
    ELSE IF updatedDatabase[1].githubRepoId = <<>> THEN 200
    ELSE 0

\* handleDatabaseUpdate's early returns once the registry is read: the status
\* answered, or 0 when the event goes on to updateTriggerStatus
Reject(updatedDatabase, e) ==
    IF updatedDatabase = <<>> THEN 200
    ELSE IF updatedDatabase[1].githubRepoId = <<>> THEN 200
    ELSE IF ~WellFormedRepoId(updatedDatabase[1].githubRepoId) THEN 400
    ELSE IF e.GITHUB_TOKEN = "" THEN 500
    ELSE 0

\* getAllNotionDatabasesFromKV returned: find the database, check its
\* repository and the token, read the delay and enter updateTriggerStatus
\* (const now = Date.now())
WebhookLookup(i) ==
    /\ inv[i].kind = "webhook" /\ inv[i].pc = "w_list"
    /\ \/ \* the registry read throws: handleNotionWebhook's catch answers 500
          inv' = [inv EXCEPT ![i] = Respond(Failed(@, @.databaseId), 500)]
       \/ LET updatedDatabase == find(registry, inv[i].databaseId)
              status == Reject(updatedDatabase, env)
          IN  inv' = [inv EXCEPT ![i] =
                IF status # 0 THEN Respond(@, status)
                ELSE [@ EXCEPT !.pc = "w_get", !.database = updatedDatabase,
                               !.delayMinutes = DelayMinutes(env), !.now = clock]]
    /\ UNCHANGED Others

\* updateTriggerStatus: currentStatus = await getTriggerStatus(...), read for the log only
WebhookRead(i) ==
    /\ inv[i].kind = "webhook" /\ inv[i].pc = "w_get"
    /\ \E ok \in BOOLEAN :
          inv' = [inv EXCEPT ![i] =
                    [inv[i] EXCEPT !.pc = "w_put",
                                   !.currentStatus = getTriggerStatus(triggers, inv[i].databaseId, ok)]]
    /\ UNCHANGED Others

\* An updateTriggerStatus that logs the error of the put and returns
PutSwallowed(r) == [Failed(r, r.databaseId) EXCEPT !.pc = "w_can"]

\* A handleNotionWebhook without its catch: the error of the put leaves the
\* handler and no response is made
PutEscapes(r) == [Failed(r, r.databaseId) EXCEPT !.pc = "done"]

\* the put throws: updateTriggerStatus logs and rethrows, handleDatabaseUpdate
\* lets the error through and handleNotionWebhook's catch answers 500
PutThrows(r) == Respond(Failed(r, r.databaseId), 500)

\* updateTriggerStatus: await kv.put(key, JSON.stringify(status))
WebhookPut(i) ==
    /\ inv[i].kind = "webhook" /\ inv[i].pc = "w_put"
    /\ \/ /\ triggers' = putTriggerStatus(triggers, inv[i].databaseId, inv[i].currentStatus,
                                          inv[i].now, inv[i].delayMinutes)
          /\ inv' = [inv EXCEPT ![i] = [inv[i] EXCEPT !.pc = "w_can"]]
          /\ lastNotify' = [lastNotify EXCEPT ![inv[i].databaseId] = inv[i].now]
          /\ fired' = [fired EXCEPT ![inv[i].databaseId] = 0]
          /\ delFailed' = [delFailed EXCEPT ![inv[i].databaseId] = FALSE]
       \/ /\ inv' = [inv EXCEPT ![i] = PutThrows(@)]
          /\ UNCHANGED <<triggers, lastNotify, fired, delFailed>>
    /\ UNCHANGED <<clock, env, manual, registry>>

\* if (await canTriggerActions(env.NOTION_TOOLS_BOT, databaseId))
WebhookCheck(i) ==
    /\ inv[i].kind = "webhook" /\ inv[i].pc = "w_can"
    /\ \E ok \in BOOLEAN :
         LET due == canTriggerActions(getTriggerStatus(triggers, inv[i].databaseId, ok), clock)
             r == [(IF ok THEN inv[i] ELSE Failed(inv[i], inv[i].databaseId))
                     EXCEPT !.due = due]
         IN  inv' = [inv EXCEPT ![i] =
                IF due THEN [r EXCEPT !.pc = "w_dispatch"]
                ELSE IF env.TELEGRAM_ADMIN_USER_ID = "" THEN Respond(r, 200)
                ELSE [r EXCEPT !.pc = "w_notify_pending"]]
    /\ UNCHANGED Others

\* await triggerGitHubAction(env.GITHUB_TOKEN, owner, repo)
WebhookDispatch(i) ==
    /\ inv[i].kind = "webhook" /\ inv[i].pc = "w_dispatch"
    /\ \/ /\ inv' = [inv EXCEPT ![i] = [Dispatched(@, @.databaseId) EXCEPT !.pc = "w_clear"]]
          /\ fired' = Bump(fired, inv[i].databaseId)
       \/ \* the dispatch throws: answered 500, nothing else is done
          /\ inv' = [inv EXCEPT ![i] = Respond(Failed(@, @.databaseId), 500)]
          /\ UNCHANGED fired
    /\ UNCHANGED <<clock, env, manual, registry, triggers, lastNotify, delFailed>>

\* await clearTriggerStatus(env.NOTION_TOOLS_BOT, databaseId); then
\* sendTelegramMessage, which returns at once without an administrator id
WebhookClear(i) ==
    /\ inv[i].kind = "webhook" /\ inv[i].pc = "w_clear"
    /\ \/ /\ triggers' = clearTriggerStatus(triggers, inv[i].databaseId)
          /\ inv' = [inv EXCEPT ![i] =
                IF env.TELEGRAM_ADMIN_USER_ID = ""
                THEN Respond(@, 200)
                ELSE [@ EXCEPT !.pc = "w_notify_fired"]]
          /\ lastNotify' = [lastNotify EXCEPT ![inv[i].databaseId] = -1]
          /\ UNCHANGED delFailed
       \/ \* the delete throws: rethrown by clearTriggerStatus, answered 500
          /\ inv' = [inv EXCEPT ![i] = Respond(Failed(@, @.databaseId), 500)]
          /\ delFailed' = [delFailed EXCEPT ![inv[i].databaseId] = TRUE]
          /\ UNCHANGED <<triggers, lastNotify>>
    /\ UNCHANGED <<clock, env, manual, registry, fired>>

\* A sendTelegramMessage that lets the error of the send through
NotifiedOrThrown(r, sent) ==
    IF sent THEN Respond(r, 200)
    ELSE Respond([Failed(r, r.databaseId) EXCEPT !.unsent = TRUE], 500)

\* sendTelegramMessage has returned: an error of bot.init or sendMessage is
\* caught and logged inside it, and handleDatabaseUpdate answers 200
Notified(r, sent) == Respond([r EXCEPT !.unsent = ~sent], 200)

\* await sendTelegramMessage(env, message)
WebhookNotify(i) ==
    /\ inv[i].kind = "webhook" /\ inv[i].pc \in {"w_notify_fired", "w_notify_pending"}
    /\ \E sent \in BOOLEAN : inv' = [inv EXCEPT ![i] = Notified(@, sent)]
    /\ UNCHANGED Others

----------------------------------------------------------------------------
(* worker.ts: scheduled *)

\* the for loop's next database with a githubRepoId at or after position `from`
\* (the others are skipped by `continue`), or 0 at the end of the list
NextLinked(databases, from) ==
    LET rest == { k \in DOMAIN databases : k >= from /\ databases[k].githubRepoId # <<>> }
    IN  IF rest = {} THEN 0 ELSE Min(rest)

\* A sweep that gives up at the first failing database
ContinueAbort(r, failure) ==
    LET k == IF failure THEN 0 ELSE NextLinked(r.databases, r.idx + 1)
    IN  IF k = 0
        THEN [r EXCEPT !.pc = "done", !.idx = 0, !.databaseId = <<>>, !.database = <<>>]
        ELSE [r EXCEPT !.pc = "s_get", !.idx = k,
                       !.databaseId = formatNotionId(r.databases[k].id),
                       !.database = <<r.databases[k]>>]

\* A sweep that tries the failing database again
ContinueRetry(r, failure) ==
    LET k == IF failure THEN r.idx ELSE NextLinked(r.databases, r.idx + 1)
    IN  IF k = 0
        THEN [r EXCEPT !.pc = "done", !.idx = 0, !.databaseId = <<>>, !.database = <<>>]
        ELSE [r EXCEPT !.pc = "s_get", !.idx = k,
                       !.databaseId = formatNotionId(r.databases[k].id),
                       !.database = <<r.databases[k]>>]

\* A sweep that dispatches for every linked database without asking whether
\* its record is due
ContinueDispatch(r, failure) ==
    LET k == NextLinked(r.databases, r.idx + 1)
    IN  IF k = 0
        THEN [r EXCEPT !.pc = "done", !.idx = 0, !.databaseId = <<>>, !.database = <<>>]
        ELSE [r EXCEPT !.pc = "s_dispatch", !.idx = k,
                       !.databaseId = formatNotionId(r.databases[k].id),
                       !.database = <<r.databases[k]>>]

\* A sweep that deletes the record in a finally clause: the delete follows the
\* dispatch that threw
ContinueFinally(r, failure) ==
    LET k == NextLinked(r.databases, r.idx + 1)
    IN  IF failure /\ r.pc = "s_dispatch"
        THEN [r EXCEPT !.pc = "s_clear"]
        ELSE IF k = 0
        THEN [r EXCEPT !.pc = "done", !.idx = 0, !.databaseId = <<>>, !.database = <<>>]
        ELSE [r EXCEPT !.pc = "s_get", !.idx = k,
                       !.databaseId = formatNotionId(r.databases[k].id),
                       !.database = <<r.databases[k]>>]

\* the loop body has ended for the database at r.idx (by `continue`, by the end
\* of the try block or, when `failure`, by its catch): go on with the next one
Continue(r, failure) ==
    LET k == NextLinked(r.databases, r.idx + 1)
    IN  IF k = 0
        THEN [r EXCEPT !.pc = "done", !.idx = 0, !.databaseId = <<>>, !.database = <<>>]
        ELSE [r EXCEPT !.pc = "s_get", !.idx = k,
                       !.databaseId = formatNotionId(r.databases[k].id),
                       !.database = <<r.databases[k]>>]

\* the linked databases whose stored record is pending with its deadline reached
DueNow(databases, kv, now) ==
    { formatNotionId(databases[k].id) :
        k \in { j \in DOMAIN databases :
                  /\ databases[j].githubRepoId # <<>>
                  /\ TriggerKey(formatNotionId(databases[j].id)) \in DOMAIN kv
                  /\ kv[TriggerKey(formatNotionId(databases[j].id))].pending
                  /\ now >= kv[TriggerKey(formatNotionId(databases[j].id))].nextTriggerTime } }

\* the cron trigger fires
Cron(i) ==
    /\ FreeSlot(i)
    /\ inv' = [inv EXCEPT ![i] = [Idle EXCEPT !.kind = "sweep", !.pc = "s_list",
                                              !.dueAtStart = DueNow(registry, triggers, clock)]]
    /\ UNCHANGED Others

\* the same, while no other invocation is in flight
StartSweep(i) == Quiet /\ Cron(i)

\* const databases = await getAllNotionDatabasesFromKV(env.NOTION_TOOLS_BOT)
SweepList(i) ==
    /\ inv[i].kind = "sweep" /\ inv[i].pc = "s_list"
    /\ \/ inv' = [inv EXCEPT ![i] = Continue([@ EXCEPT !.databases = registry], FALSE)]
       \/ \* the registry read throws: the outer catch logs it and the sweep ends
          inv' = [inv EXCEPT ![i] = [@ EXCEPT !.pc = "done", !.failed = Ids]]
    /\ UNCHANGED Others

\* const currentStatus = await getTriggerStatus(...), read for the log only
SweepRead(i) ==
    /\ inv[i].kind = "sweep" /\ inv[i].pc = "s_get"
    /\ inv' = [inv EXCEPT ![i] = [@ EXCEPT !.pc = "s_can"]]
    /\ UNCHANGED Others

\* if (await canTriggerActions(...)): when due, the repository id and the token
\* are checked before the dispatch
SweepCheck(i) ==
    /\ inv[i].kind = "sweep" /\ inv[i].pc = "s_can"
    /\ \E ok \in BOOLEAN :
         LET due == canTriggerActions(getTriggerStatus(triggers, inv[i].databaseId, ok), clock)
             r == [(IF ok THEN inv[i] ELSE Failed(inv[i], inv[i].databaseId)) EXCEPT !.due = due]
         IN  inv' = [inv EXCEPT ![i] =
                IF ~due THEN Continue(r, FALSE)
                ELSE IF ~WellFormedRepoId(r.database[1].githubRepoId) THEN Continue(r, FALSE)
                ELSE IF env.GITHUB_TOKEN = "" THEN Continue(r, FALSE)
                ELSE [r EXCEPT !.pc = "s_dispatch"]]
    /\ UNCHANGED Others

\* try { await triggerGitHubAction(...) ... } catch { log }
SweepDispatch(i) ==
    /\ inv[i].kind = "sweep" /\ inv[i].pc = "s_dispatch"
    /\ \/ /\ inv' = [inv EXCEPT ![i] = [Dispatched(@, @.databaseId) EXCEPT !.pc = "s_clear"]]
          /\ fired' = Bump(fired, inv[i].databaseId)
       \/ \* the dispatch throws: logged, the loop goes on with the next database
          /\ inv' = [inv EXCEPT ![i] = Continue(Failed(@, @.databaseId), TRUE)]
          /\ UNCHANGED fired
    /\ UNCHANGED <<clock, env, manual, registry, triggers, lastNotify, delFailed>>

\* await clearTriggerStatus(...); then the notification, if Telegram is configured
SweepClear(i) ==
    /\ inv[i].kind = "sweep" /\ inv[i].pc = "s_clear"
    /\ \/ /\ triggers' = clearTriggerStatus(triggers, inv[i].databaseId)
          /\ inv' = [inv EXCEPT ![i] =
                IF env.TELEGRAM_ADMIN_USER_ID # "" /\ env.TELEGRAM_BOT_TOKEN # ""
                THEN [@ EXCEPT !.pc = "s_notify"]
                ELSE Continue(@, FALSE)]
          /\ lastNotify' = [lastNotify EXCEPT ![inv[i].databaseId] = -1]
          /\ UNCHANGED delFailed
       \/ \* the delete throws: logged, the loop goes on with the next database
          /\ inv' = [inv EXCEPT ![i] = Continue(Failed(@, @.databaseId), TRUE)]
          /\ delFailed' = [delFailed EXCEPT ![inv[i].databaseId] = TRUE]
          /\ UNCHANGED <<triggers, lastNotify>>
    /\ UNCHANGED <<clock, env, manual, registry, fired>>

\* await bot.init(); await bot.api.sendMessage(...): a failure is caught by the
\* same try block and logged
SweepNotify(i) ==
    /\ inv[i].kind = "sweep" /\ inv[i].pc = "s_notify"
    /\ \E sent \in BOOLEAN :
          inv' = [inv EXCEPT ![i] = Continue([@ EXCEPT !.unsent = @ \/ ~sent], ~sent)]
    /\ UNCHANGED Others

----------------------------------------------------------------------------
(* The environment *)

\* the handler has returned
Return(i) ==
    /\ inv[i].pc = "done"
    /\ inv' = [inv EXCEPT ![i] = Idle]
    /\ UNCHANGED Others

\* a minute passes; an update event that has not read the clock yet keeps its
\* deadline inside the horizon
Tick ==
    /\ clock + MsPerMinute <= HorizonMs
    /\ \A j \in InvIds :
          inv[j].pc = "w_list" => clock + MsPerMinute + DelayMs(env) <= HorizonMs
    /\ clock' = clock + MsPerMinute
    /\ UNCHANGED <<env, manual, registry, triggers, inv, lastNotify, fired, delFailed>>

Init ==
    /\ clock = 0
    /\ env \in Envs
    /\ registry = InitialRegistry
    /\ triggers = <<>>
    /\ inv = [j \in InvIds |-> Idle]
    /\ lastNotify = [d \in Ids |-> -1]
    /\ fired = [d \in Ids |-> 0]
    /\ delFailed = [d \in Ids |-> FALSE]
    /\ manual = [d \in Ids |-> 0]

Step(i) ==
    \/ \E raw \in RawIds : StartWebhook(i, raw)
    \/ WebhookLookup(i)
    \/ WebhookRead(i)
    \/ WebhookPut(i)
    \/ WebhookCheck(i)
    \/ WebhookDispatch(i)
    \/ WebhookClear(i)
    \/ WebhookNotify(i)
    \/ StartSweep(i)
    \/ SweepList(i)
    \/ SweepRead(i)
    \/ SweepCheck(i)
    \/ SweepDispatch(i)
    \/ SweepClear(i)
    \/ SweepNotify(i)
    \/ Return(i)

Next == Tick \/ \E i \in InvIds : Step(i)

Spec == Init /\ [][Next]_vars

----------------------------------------------------------------------------
(* canTriggerActions over arbitrary stored records: the store starts with any
   record, pending or not, for the routable databases, and sweeps read it *)

DueInputs == [pending : BOOLEAN, nextTriggerTime : {0, 2 * MsPerMinute}]

RoutableIds ==
    { formatNotionId(InitialRegistry[n].id) :
        n \in { m \in DOMAIN InitialRegistry : WellFormedRepoId(InitialRegistry[m].githubRepoId) } }

StoreOf(S, g) ==
    [key \in { TriggerKey(k) : k \in S } |->
        LET k == CHOOSE d \in S : TriggerKey(d) = key
        IN  [databaseId |-> k, nextTriggerTime |-> g[k].nextTriggerTime,
             pending |-> g[k].pending, updatedAt |-> 0]]

InitDue ==
    /\ clock = 0
    /\ env \in Envs
    /\ registry = InitialRegistry
    /\ \E S \in SUBSET RoutableIds : \E g \in [RoutableIds -> DueInputs] :
          triggers = StoreOf(S, g)
    /\ inv = [j \in InvIds |-> Idle]
    /\ lastNotify = [d \in Ids |-> -1]
    /\ fired = [d \in Ids |-> 0]
    /\ delFailed = [d \in Ids |-> FALSE]
    /\ manual = [d \in Ids |-> 0]

NextDue ==
    \/ Tick
    \/ \E i \in InvIds :
          \/ StartSweep(i)
          \/ SweepList(i)
          \/ SweepRead(i)
          \/ SweepCheck(i)
          \/ SweepDispatch(i)
          \/ SweepClear(i)
          \/ SweepNotify(i)
          \/ Return(i)

SpecDue == InitDue /\ [][NextDue]_vars

----------------------------------------------------------------------------
(* Scheduling: a handler that has started runs to its end, time passes, the
   cron trigger keeps firing, and a call that is attempted again and again
   (the registry read, the record read, the dispatch, the deletion) does not
   fail for ever *)

\* invocation i takes its next step
Progress(i) ==
    \/ WebhookLookup(i)
    \/ WebhookRead(i)
    \/ WebhookPut(i)
    \/ WebhookCheck(i)
    \/ WebhookDispatch(i)
    \/ WebhookClear(i)
    \/ WebhookNotify(i)
    \/ SweepList(i)
    \/ SweepRead(i)
    \/ SweepCheck(i)
    \/ SweepDispatch(i)
    \/ SweepClear(i)
    \/ SweepNotify(i)
    \/ Return(i)

ListOk == \E i \in InvIds : SweepList(i) /\ inv'[i].failed = {}

ReadOk(k) ==
    \E i \in InvIds : SweepCheck(i) /\ inv[i].databaseId = k /\ k \notin inv'[i].failed

DispatchSucceeds(k) ==
    \E i \in InvIds : SweepDispatch(i) /\ inv[i].databaseId = k /\ k \in inv'[i].dispatched

ClearSucceeds(k) ==
    \E i \in InvIds : SweepClear(i) /\ inv[i].databaseId = k /\ k \notin inv'[i].failed

\* the update events of the liveness runs: the first registered database and
\* an unknown one
LiveRawIds == { InitialRegistry[1].id, <<"x">> }

LiveIds == { formatNotionId(InitialRegistry[1].id) }

NextLive ==
    \/ Tick
    \/ \E i \in InvIds :
          \/ \E raw \in LiveRawIds : StartWebhook(i, raw)
          \/ StartSweep(i)
          \/ Progress(i)

Fairness ==
    /\ WF_vars(Tick)
    /\ WF_vars(\E i \in InvIds : Progress(i))
    /\ WF_vars(\E i \in InvIds : StartSweep(i))
    /\ SF_vars(ListOk)
    /\ \A k \in LiveIds :
          SF_vars(ReadOk(k)) /\ SF_vars(DispatchSucceeds(k)) /\ SF_vars(ClearSucceeds(k))

LiveSpec == Init /\ [][NextLive]_vars /\ Fairness

----------------------------------------------------------------------------
(* Overlapping invocations: the runtime may start a handler while another one
   is suspended at an await.  One linked database is registered and the update
   events are for it. *)

OverlapEnvs == { e \in Envs : e.GITHUB_TOKEN # "" /\ DelayMinutes(e) <= 1 }

OverlapHorizonMs == OverlapMaxTime * MsPerMinute

\* a minute passes
TickOverlap ==
    /\ clock + MsPerMinute <= OverlapHorizonMs
    /\ clock' = clock + MsPerMinute
    /\ UNCHANGED <<env, manual, registry, triggers, inv, lastNotify, fired, delFailed>>

InitOverlap ==
    /\ clock = 0
    /\ env \in OverlapEnvs
    /\ registry = <<InitialRegistry[1]>>
    /\ triggers = <<>>
    /\ inv = [j \in InvIds |-> Idle]
    /\ lastNotify = [d \in Ids |-> -1]
    /\ fired = [d \in Ids |-> 0]
    /\ delFailed = [d \in Ids |-> FALSE]
    /\ manual = [d \in Ids |-> 0]

\* two invocations at a time overlap
OverlapInvIds == {1, 2} \cap InvIds

NextOverlap ==
    \/ TickOverlap
    \/ \E i \in OverlapInvIds :
          \/ Arrive(i, InitialRegistry[1].id)
          \/ Cron(i)
          \/ Progress(i)

SpecOverlap == InitOverlap /\ [][NextOverlap]_vars

----------------------------------------------------------------------------
(* Vocabulary of the properties *)

HasRecord(databaseId) == TriggerKey(databaseId) \in DOMAIN triggers

Record(databaseId) == triggers[TriggerKey(databaseId)]

\* the same, in the state a step leads to
HasRecordAfter(databaseId) == TriggerKey(databaseId) \in DOMAIN triggers'

RecordAfter(databaseId) == triggers'[TriggerKey(databaseId)]

DispatchPcs == {"w_dispatch", "s_dispatch"}

ClearPcs == {"w_clear", "s_clear"}

NotifyPcs == {"w_notify_fired", "s_notify"}

\* the debounce window of the last accepted update of databaseId is over
WindowOver(databaseId) ==
    /\ lastNotify[databaseId] >= 0
    /\ clock >= lastNotify[databaseId] + DelayMs(env)

\* invocation i's due check has just answered true
CheckedDue(i) == inv[i].pc \notin DispatchPcs /\ inv'[i].pc \in DispatchPcs

\* invocation i's dispatch call has just returned or thrown
DispatchIssued(i) == inv[i].pc \in DispatchPcs /\ inv'[i].pc # inv[i].pc

\* C1: under non-overlapping invocations, the due check answers true and a
\* dispatch is issued (by the webhook handler or by a sweep) only when at least
\* the delay has passed since the most recent accepted update of that database.
C1_NoPrematureDispatch ==
    [][\A i \in InvIds :
          /\ CheckedDue(i) => WindowOver(inv'[i].databaseId)
          /\ DispatchIssued(i) => WindowOver(inv[i].databaseId)]_vars

\* an update arrived while the previous one was still waiting, the due check
\* answered false, and the handler is telling the user that the trigger is delayed
C1_Witness ==
    \E i \in InvIds :
        /\ inv[i].pc = "w_notify_pending" /\ ~inv[i].due
        /\ DelayMs(env) > 0
        /\ inv[i].currentStatus # <<>>
        /\ inv[i].currentStatus[1].nextTriggerTime > inv[i].now
        /\ inv[i].now > inv[i].currentStatus[1].updatedAt

\* databaseId is registered with a well-formed owner/repo and a token is set
Routable(databaseId) ==
    /\ env.GITHUB_TOKEN # ""
    /\ \E n \in DOMAIN registry :
          /\ formatNotionId(registry[n].id) = databaseId
          /\ WellFormedRepoId(registry[n].githubRepoId)

SweepDone(i) == inv[i].kind = "sweep" /\ inv[i].pc = "done"

WebhookDone(i) == inv[i].kind = "webhook" /\ inv[i].pc = "done"

\* C2: under non-overlapping invocations and as long as no deletion of the
\* record has failed since the last accepted update, at most one dispatch
\* succeeds per quiet period; and a sweep that starts with the record due and
\* meets no failure for that database ends with exactly one dispatch made for
\* the period and the record gone.
C2_ExactlyOneDispatch ==
    /\ \A k \in Ids : ~delFailed[k] => fired[k] <= 1
    /\ \A i \in InvIds : SweepDone(i) =>
          \A k \in inv[i].dueAtStart \ inv[i].failed :
              (Routable(k) /\ ~delFailed[k]) => (fired[k] = 1 /\ ~HasRecord(k))

\* a sweep found the record due after a positive delay, dispatched once and
\* deleted the record
C2_Witness ==
    \E i \in InvIds : \E k \in Ids :
        /\ SweepDone(i) /\ DelayMs(env) > 0
        /\ k \in inv[i].dueAtStart /\ k \in inv[i].dispatched
        /\ fired[k] = 1 /\ ~HasRecord(k) /\ ~delFailed[k]

\* updateTriggerStatus has just written invocation i's record
RecordWritten(i) == inv[i].pc = "w_put" /\ inv'[i].pc = "w_can"

\* C3: every accepted update writes nextTriggerTime = now + delayMinutes * 60000
\* with now the time of this update, whatever record was there before (a later
\* update replaces the deadline, it does not add to it); and no dispatch is
\* issued before the deadline the record holds.
C3_ResetOnRetrigger ==
    [][\A i \in InvIds :
          /\ RecordWritten(i) =>
                /\ HasRecordAfter(inv[i].databaseId)
                /\ RecordAfter(inv[i].databaseId).nextTriggerTime
                      = inv[i].now + DelayMinutes(env) * 60000
                /\ RecordAfter(inv[i].databaseId).pending
          /\ DispatchIssued(i) =>
                /\ HasRecord(inv[i].databaseId)
                /\ clock >= Record(inv[i].databaseId).nextTriggerTime]_vars

\* delay 5: an update at minute 0 set the deadline to minute 5, the update at
\* minute 2 has replaced it by minute 7
C3_Witness ==
    \E i \in InvIds :
        /\ inv[i].pc = "w_can" /\ DelayMinutes(env) = 5
        /\ inv[i].now = 2 * MsPerMinute
        /\ inv[i].currentStatus # <<>>
        /\ inv[i].currentStatus[1].updatedAt = 0
        /\ inv[i].currentStatus[1].nextTriggerTime = 5 * MsPerMinute
        /\ Record(inv[i].databaseId).nextTriggerTime = 7 * MsPerMinute

\* invocation i's canTriggerActions call has just returned
CheckReturned(i) == inv[i].pc \in {"w_can", "s_can"} /\ inv'[i].pc # inv[i].pc

\* C4: canTriggerActions answers true exactly when the record it reads exists,
\* has its pending flag set and has now >= nextTriggerTime, and false in every
\* other case (an absent record, a record that is not pending, a deadline still
\* ahead, a read that failed); a dispatch follows only a true answer.
C4_DueExactlyWhen ==
    [][\A i \in InvIds :
          /\ CheckReturned(i) =>
                inv'[i].due =
                    ( /\ inv[i].databaseId \notin inv'[i].failed
                      /\ HasRecord(inv[i].databaseId)
                      /\ Record(inv[i].databaseId).pending
                      /\ clock >= Record(inv[i].databaseId).nextTriggerTime )
          /\ CheckedDue(i) => (inv'[i].due /\ HasRecord(inv'[i].databaseId))]_vars

\* a sweep passed over the first database, whose record has its deadline
\* reached but is not pending, and found the record of a later database due
C4_Witness ==
    \E i \in InvIds :
        LET first == formatNotionId(registry[1].id)
        IN  /\ inv[i].pc = "s_dispatch" /\ inv[i].due /\ inv[i].idx > 1
            /\ first \notin inv[i].failed
            /\ HasRecord(first) /\ ~Record(first).pending
            /\ clock >= Record(first).nextTriggerTime
            /\ Record(inv[i].databaseId).pending

\* invocation i's dispatch call has just thrown
DispatchFailed(i) ==
    /\ DispatchIssued(i)
    /\ inv[i].databaseId \notin inv'[i].dispatched

\* invocation i's dispatch call has just returned
DispatchOk(i) ==
    /\ DispatchIssued(i)
    /\ inv[i].databaseId \in inv'[i].dispatched

\* C5: a failed dispatch leaves the store as it was, with the record still due,
\* and the handler goes on (to its 500 answer or to the next database) without
\* trying the same database again; no database is dispatched twice in one
\* invocation; and a sweep that starts with the record due and meets no failure
\* for that database dispatches it and ends with the record deleted.
C5_FailurePreservesRecord ==
    [][\A i \in InvIds :
          /\ DispatchFailed(i) =>
                /\ triggers' = triggers
                /\ HasRecord(inv[i].databaseId)
                /\ Record(inv[i].databaseId).pending
                /\ clock >= Record(inv[i].databaseId).nextTriggerTime
                /\ inv'[i].pc = "done" \/ inv'[i].databaseId # inv[i].databaseId
          /\ CheckedDue(i) =>
                inv'[i].databaseId \notin (inv[i].failed \cup inv[i].dispatched)
          /\ (inv'[i].kind = "sweep" /\ inv'[i].pc = "done" /\ inv[i].pc # "done") =>
                \A k \in inv'[i].dueAtStart \ inv'[i].failed :
                    Routable(k) => (k \in inv'[i].dispatched /\ ~HasRecordAfter(k))]_vars

\* a sweep's dispatch for the first database has thrown: the sweep is at the
\* next database and the record of the first is still there, still due
C5_Witness ==
    \E i \in InvIds :
        LET first == formatNotionId(registry[1].id)
        IN  /\ inv[i].kind = "sweep" /\ inv[i].pc = "s_get" /\ inv[i].idx = 2
            /\ inv[i].due
            /\ first \in inv[i].failed /\ first \notin inv[i].dispatched
            /\ first \in inv[i].dueAtStart
            /\ HasRecord(first) /\ Record(first).pending
            /\ clock >= Record(first).nextTriggerTime

\* invocation i's clearTriggerStatus call has just returned
ClearOk(i) ==
    /\ inv[i].pc \in ClearPcs /\ inv'[i].pc # inv[i].pc
    /\ inv[i].databaseId \notin inv'[i].failed

\* the notification sink of invocation i's handler is configured: the webhook
\* handler's sendTelegramMessage needs the admin id, the sweep the bot token too
SinkConfigured(i) ==
    /\ env.TELEGRAM_ADMIN_USER_ID # ""
    /\ inv[i].kind = "sweep" => env.TELEGRAM_BOT_TOKEN # ""

\* C6: when a dispatch returns, the same invocation calls clearTriggerStatus for
\* that database next; when that call returns the record is gone and, with the
\* notification sink configured, the confirmation is sent next; an invocation
\* never ends with a record left for a database it dispatched without a failure.
C6_SuccessClearsRecord ==
    [][\A i \in InvIds :
          /\ DispatchOk(i) =>
                /\ inv'[i].pc \in ClearPcs
                /\ inv'[i].databaseId = inv[i].databaseId
                /\ triggers' = triggers
          /\ ClearOk(i) =>
                /\ ~HasRecordAfter(inv[i].databaseId)
                /\ SinkConfigured(i) =>
                      /\ inv'[i].pc \in NotifyPcs
                      /\ inv'[i].databaseId = inv[i].databaseId
          /\ (inv'[i].pc = "done" /\ inv[i].pc # "done") =>
                \A k \in inv'[i].dispatched \ inv'[i].failed : ~HasRecordAfter(k)]_vars

\* the handler dispatched, deleted the record and is sending the confirmation
C6_Witness ==
    \E i \in InvIds :
        /\ inv[i].pc \in NotifyPcs
        /\ inv[i].databaseId \in inv[i].dispatched
        /\ inv[i].databaseId \notin inv[i].failed
        /\ ~HasRecord(inv[i].databaseId)
        /\ fired[inv[i].databaseId] = 1

\* C7: a failure (of the dispatch, the deletion or the notification) for one
\* database does not end the sweep: every routable database that was due when
\* the sweep began and met no failure of its own has been dispatched and has
\* no record left when the sweep ends, whatever its position in the registry.
C7_SweepFailureIsolation ==
    \A i \in InvIds : SweepDone(i) =>
        \A k \in inv[i].dueAtStart \ inv[i].failed :
            Routable(k) => (k \in inv[i].dispatched /\ ~HasRecord(k))

\* a sweep has ended in which the first database failed and a later database,
\* due as well, was dispatched and its record deleted
C7_Witness ==
    \E i \in InvIds :
        LET first == formatNotionId(registry[1].id)
        IN  /\ SweepDone(i)
            /\ first \in (inv[i].dueAtStart \cap inv[i].failed)
            /\ HasRecord(first)
            /\ \E k \in inv[i].dueAtStart \ {first} :
                  k \in inv[i].dispatched /\ k \notin inv[i].failed /\ ~HasRecord(k)

\* databaseId is not in the registry, or is there without a githubRepoId
Unlinked(databaseId) ==
    \A n \in DOMAIN registry :
        formatNotionId(registry[n].id) = databaseId => registry[n].githubRepoId = <<>>

\* C8: an update event whose database is absent from the registry or has no
\* githubRepoId changes no record and reaches no dispatch, and once the
\* registry has been read it is answered 200; no record exists for such a
\* database.
C8_NoOpOnUnlinked ==
    [][\A i \in InvIds :
          (inv'[i].kind = "webhook" /\ inv'[i].raw # <<>> /\ Unlinked(inv'[i].databaseId)) =>
              /\ triggers' = triggers
              /\ inv'[i].pc \in {"w_list", "done"}
              /\ inv'[i].dispatched = {}
              /\ ~HasRecordAfter(inv'[i].databaseId)
              /\ (inv'[i].pc = "done" /\ inv'[i].failed = {}) => inv'[i].status = 200]_vars

\* an update event for a database without a githubRepoId has been answered 200
\* after time has passed, with nothing stored for it
C8_Witness ==
    \E i \in InvIds :
        /\ WebhookDone(i) /\ inv[i].status = 200 /\ inv[i].failed = {}
        /\ inv[i].raw # <<>> /\ Unlinked(inv[i].databaseId)
        /\ find(registry, inv[i].databaseId) # <<>>
        /\ ~HasRecord(inv[i].databaseId)
        /\ clock > 0

\* C9: with a delay of zero an update writes nextTriggerTime = now, the due
\* check of the same invocation answers true, and the handler, unless one of
\* its calls fails, has dispatched and deleted the record when it answers 200.
C9_ZeroDelaySynchronous ==
    [][DelayMinutes(env) = 0 =>
          \A i \in InvIds :
              /\ RecordWritten(i) =>
                    RecordAfter(inv[i].databaseId).nextTriggerTime = inv[i].now
              /\ (CheckReturned(i) /\ inv[i].kind = "webhook"
                    /\ inv[i].databaseId \notin inv'[i].failed) =>
                    (inv'[i].due /\ inv'[i].pc = "w_dispatch")
              /\ (inv'[i].kind = "webhook" /\ inv'[i].pc = "done" /\ inv[i].pc # "done"
                    /\ inv'[i].database # <<>> /\ inv'[i].failed = {}) =>
                    /\ inv'[i].databaseId \in inv'[i].dispatched
                    /\ ~HasRecordAfter(inv'[i].databaseId)
                    /\ inv'[i].status = 200]_vars

\* delay 0: the handler that received the update has dispatched and deleted
\* the record at the very instant of the update and answered 200
C9_Witness ==
    \E i \in InvIds :
        /\ DelayMinutes(env) = 0
        /\ WebhookDone(i) /\ inv[i].status = 200 /\ inv[i].now = clock
        /\ inv[i].databaseId \in inv[i].dispatched
        /\ fired[inv[i].databaseId] = 1
        /\ ~HasRecord(inv[i].databaseId)

\* no update event is being handled
NoUpdates == \A i \in InvIds : inv[i].kind # "webhook"

\* C10: under the scheduling above, if update events eventually stop, every
\* record is eventually dispatched and deleted: a burst postpones the firing
\* only up to the delay after its last update.
C10_EventuallyFires ==
    (<>[]NoUpdates) =>
        \A k \in Ids : HasRecord(k) ~> (~HasRecord(k) /\ fired[k] >= 1)

\* a sweep has dispatched, after its positive delay, a record written by an
\* update that came later than minute 0, and is about to delete it
C10_Witness ==
    \E i \in InvIds :
        /\ inv[i].pc = "s_clear" /\ DelayMs(env) > 0
        /\ inv[i].databaseId \in inv[i].dispatched
        /\ HasRecord(inv[i].databaseId)
        /\ Record(inv[i].databaseId).updatedAt > 0
        /\ fired[inv[i].databaseId] = 1

\* the awaits at which a handler sends a Telegram message
AnyNotifyPcs == NotifyPcs \cup {"w_notify_pending"}

\* C11: whenever a dispatch attempt fails, in a sweep or in the webhook
\* handler's immediate path, and the notification sink is configured, the
\* handler's next step sends a notification to the user.
C11_FailureNotified ==
    [][\A i \in InvIds :
          (DispatchFailed(i) /\ SinkConfigured(i)) => inv'[i].pc \in AnyNotifyPcs]_vars

\* an id without its hyphens
NoHyphens(id) == SelectSeq(id, LAMBDA c : c # "-")

\* C12: ids that differ only by hyphens share one record.  Every stored key is
\* the prefix followed by a hyphen-free id; the webhook handler writes the key
\* of the hyphen-free form of the id it received, which is the key of the
\* registry entry it matched, whichever form the registry holds; the sweep
\* finds due, and deletes, the record under the key of the hyphen-free form of
\* the registry entry's id.
C12_IdNormalization ==
    [][/\ \A key \in DOMAIN triggers' :
             \E r \in RawIds : key = <<TRIGGER_STATUS_PREFIX>> \o NoHyphens(r)
       /\ \A i \in InvIds :
             LET entry == <<TRIGGER_STATUS_PREFIX>> \o NoHyphens(inv[i].database[1].id)
             IN  /\ RecordWritten(i) =>
                       /\ entry = <<TRIGGER_STATUS_PREFIX>> \o NoHyphens(inv[i].raw)
                       /\ DOMAIN triggers' = DOMAIN triggers \cup {entry}
                       /\ triggers'[entry].databaseId = NoHyphens(inv[i].raw)
                 /\ (CheckedDue(i) /\ inv[i].kind = "sweep") =>
                       /\ entry \in DOMAIN triggers
                       /\ triggers[entry].databaseId = NoHyphens(inv[i].database[1].id)
                 /\ (ClearOk(i) /\ inv[i].kind = "sweep") =>
                       /\ entry \in DOMAIN triggers
                       /\ DOMAIN triggers' = DOMAIN triggers \ {entry}]_vars

\* the registry holds the last database's id without a hyphen and its update
\* events carry the hyphen: a sweep has found its record due and deleted it
C12_Witness ==
    \E i \in InvIds :
        /\ inv[i].pc = "s_notify"
        /\ inv[i].database = <<registry[4]>>
        /\ \A c \in DOMAIN registry[4].id : registry[4].id[c] # "-"
        /\ \A r \in RawIds : NoHyphens(r) = registry[4].id => r # registry[4].id
        /\ inv[i].databaseId \in inv[i].dispatched
        /\ ~HasRecord(registry[4].id)

\* the put of invocation i's updateTriggerStatus has just thrown
PutFailed(i) == inv[i].pc = "w_put" /\ inv[i].databaseId \in inv'[i].failed

\* C13: when the put inside updateTriggerStatus throws, the store is left as
\* it was (the previous record, if any, included), and the handler ends at
\* once with a 500 answer: it makes no due check, no dispatch and no deletion.
C13_PutFailureAborts ==
    [][\A i \in InvIds :
          PutFailed(i) =>
              /\ triggers' = triggers
              /\ inv'[i].pc = "done"
              /\ inv'[i].status = 500
              /\ inv'[i].dispatched = {}
              /\ ~inv'[i].due]_vars

\* an update event whose put threw has been answered 500; the record written
\* by an earlier update is still the one in the store
C13_Witness ==
    \E i \in InvIds :
        /\ WebhookDone(i) /\ inv[i].status = 500
        /\ inv[i].database # <<>> /\ ~inv[i].due
        /\ inv[i].databaseId \in inv[i].failed
        /\ inv[i].dispatched = {}
        /\ HasRecord(inv[i].databaseId)
        /\ inv[i].currentStatus = <<Record(inv[i].databaseId)>>
        /\ Record(inv[i].databaseId).updatedAt < inv[i].now

\* the read inside invocation i's canTriggerActions has just failed
CheckReadFailed(i) == CheckReturned(i) /\ inv[i].databaseId \in inv'[i].failed

\* the read inside invocation i's updateTriggerStatus has just returned
UpdateReadReturned(i) == inv[i].pc = "w_get" /\ inv'[i].pc # inv[i].pc

\* C14: a failing read is answered "no record" and nothing is raised.  The due
\* check then answers false: nothing is dispatched or deleted, a sweep goes on
\* with the next database, the webhook handler with its notification.
\* updateTriggerStatus goes on to its put whatever the read gave, and the
\* record it writes is the fresh pending one even when the read hid a record.
C14_ReadFailsSoftly ==
    [][\A i \in InvIds :
          /\ CheckReadFailed(i) =>
                /\ ~inv'[i].due
                /\ triggers' = triggers
                /\ inv'[i].dispatched = inv[i].dispatched
                /\ inv'[i].pc \notin (DispatchPcs \cup ClearPcs)
                /\ inv[i].kind = "sweep" =>
                      (inv'[i].pc = "done" \/ inv'[i].databaseId # inv[i].databaseId)
                /\ inv[i].kind = "webhook" =>
                      (inv'[i].pc = "w_notify_pending" \/ inv'[i].status = 200)
          /\ UpdateReadReturned(i) =>
                /\ inv'[i].pc = "w_put"
                /\ inv'[i].failed = inv[i].failed
                /\ \/ inv'[i].currentStatus = <<>>
                   \/ /\ HasRecord(inv[i].databaseId)
                      /\ inv'[i].currentStatus = <<Record(inv[i].databaseId)>>
          /\ (RecordWritten(i) /\ inv[i].currentStatus = <<>>) =>
                RecordAfter(inv[i].databaseId) =
                    [databaseId |-> inv[i].databaseId,
                     nextTriggerTime |-> inv[i].now + DelayMs(env),
                     pending |-> TRUE, updatedAt |-> inv[i].now]]_vars

\* a sweep could not read the due record of the first database: it is at the
\* next database, nothing was dispatched and the record is still there
C14_Witness ==
    \E i \in InvIds :
        LET first == formatNotionId(registry[1].id)
        IN  /\ inv[i].kind = "sweep" /\ inv[i].pc = "s_get" /\ inv[i].idx = 2
            /\ ~inv[i].due
            /\ first \in inv[i].failed /\ first \in inv[i].dueAtStart
            /\ inv[i].dispatched = {}
            /\ HasRecord(first) /\ Record(first).pending
            /\ clock >= Record(first).nextTriggerTime

\* invocation i's attempt to send a Telegram message has just ended
NotifyStep(i) == inv[i].pc \in AnyNotifyPcs /\ inv'[i].pc # inv[i].pc

\* C15: whether the Telegram message could be sent or not, the step that ends
\* the attempt leaves the store, the dispatch counters and the invocation's
\* record of dispatches and failures as they are; the webhook handler then
\* answers 200, and the sweep, the record of the dispatched database staying
\* deleted, goes on with the next linked database of its list.
C15_NotificationBestEffort ==
    [][\A i \in InvIds :
          NotifyStep(i) =>
              /\ triggers' = triggers /\ fired' = fired
              /\ inv'[i].dispatched = inv[i].dispatched
              /\ inv'[i].failed = inv[i].failed
              /\ inv[i].kind = "webhook" =>
                    (inv'[i].pc = "done" /\ inv'[i].status = 200)
              /\ inv[i].kind = "sweep" =>
                    /\ ~HasRecordAfter(inv[i].databaseId)
                    /\ inv'[i].idx = NextLinked(inv[i].databases, inv[i].idx + 1)
                    /\ inv'[i].pc = (IF inv'[i].idx = 0 THEN "done" ELSE "s_get")]_vars

\* a sweep dispatched the first database and deleted its record, could not
\* send the message, and is now dispatching the last database
C15_Witness ==
    \E i \in InvIds :
        LET first == formatNotionId(registry[1].id)
        IN  /\ inv[i].pc = "s_dispatch" /\ inv[i].idx = 4
            /\ inv[i].unsent /\ inv[i].failed = {}
            /\ first \in inv[i].dispatched /\ ~HasRecord(first)

\* the record that invocation i's updateTriggerStatus builds from its own locals
OwnRecord(i) ==
    [databaseId |-> inv[i].databaseId,
     nextTriggerTime |-> inv[i].now + DelayMs(env),
     pending |-> TRUE, updatedAt |-> inv[i].now]

\* C16: with two invocations overlapping at any await, each put leaves under
\* the key exactly the record its own invocation built (all four fields), so
\* the stored record is always the one of the put that happened last; it
\* never mixes fields of two writers, and it is pending.
C16_LastWriterWins ==
    [][/\ \A i \in InvIds :
             RecordWritten(i) =>
                 /\ RecordAfter(inv[i].databaseId) = OwnRecord(i)
                 /\ \A key \in DOMAIN triggers \ {TriggerKey(inv[i].databaseId)} :
                       key \in DOMAIN triggers' /\ triggers'[key] = triggers[key]
       /\ \A k \in Ids :
             HasRecordAfter(k) =>
                 /\ RecordAfter(k).pending
                 /\ RecordAfter(k).databaseId = k
                 /\ RecordAfter(k).nextTriggerTime = RecordAfter(k).updatedAt + DelayMs(env)
                 /\ (HasRecord(k) /\ RecordAfter(k) # Record(k)) =>
                       \E i \in InvIds : RecordWritten(i) /\ inv[i].databaseId = k]_vars

\* two update events for the same database overlap: the one that read the
\* clock later has put first, the other has put last and its record, with the
\* earlier time, is the one in the store
C16_Witness ==
    /\ inv[1].pc = "w_can" /\ inv[2].pc = "w_can"
    /\ inv[1].databaseId = inv[2].databaseId
    /\ inv[1].now < inv[2].now
    /\ inv[1].currentStatus # <<>>
    /\ inv[1].currentStatus[1].updatedAt < inv[1].now
    /\ Record(inv[1].databaseId) = OwnRecord(1)

\* invocation i's put has just replaced a pending record
ReplacedPending(i) ==
    /\ RecordWritten(i)
    /\ HasRecord(inv[i].databaseId)
    /\ Record(inv[i].databaseId).pending

----------------------------------------------------------------------------
\* the check pc from which each handler reaches its dispatch
CheckPcOf(pc) == IF pc = "w_dispatch" THEN "w_can" ELSE "s_can"

\* the stored record of databaseId is pending with its deadline reached
StoredDue(databaseId) ==
    canTriggerActions(getTriggerStatus(triggers, databaseId, TRUE), clock)

\* C18: the webhook handler and the sweep reach their dispatch call only from
\* their own canTriggerActions check, for the same database, when that check
\* has just answered true on the stored record; the handler stays with that
\* database and that answer while it dispatches; and a dispatch is counted for
\* a database only by an invocation that is at its dispatch call for it.
C18_TwoEntryPoints ==
    [][/\ \A i \in InvIds :
            /\ CheckedDue(i) =>
                  /\ inv[i].pc = CheckPcOf(inv'[i].pc)
                  /\ inv'[i].kind = inv[i].kind
                  /\ inv'[i].databaseId = inv[i].databaseId
                  /\ inv'[i].due
                  /\ StoredDue(inv[i].databaseId)
            /\ inv[i].pc \in DispatchPcs => inv[i].due
            /\ ~(inv'[i].dispatched \subseteq inv[i].dispatched) =>
                  /\ DispatchIssued(i)
                  /\ inv'[i].dispatched = inv[i].dispatched \cup {inv[i].databaseId}
       /\ \A k \in Ids :
            fired'[k] > fired[k] =>
                \E i \in InvIds : DispatchIssued(i) /\ inv[i].databaseId = k /\ inv[i].due]_vars

\* a sweep passed over the databases listed first without dispatching, found a
\* later one due, and its dispatch for that one has returned
C18_Witness ==
    \E i \in InvIds :
        /\ inv[i].kind = "sweep" /\ inv[i].pc = "s_clear"
        /\ inv[i].idx > 1
        /\ inv[i].due
        /\ inv[i].dispatched = {inv[i].databaseId}
        /\ fired[inv[i].databaseId] = 1

----------------------------------------------------------------------------
\* githubRepoId values for which (!owner || !repo) holds: no repo, no owner,
\* no separator, nothing but the separator
MalformedRepoIds == { <<"o", "/">>, <<"/", "r">>, <<"o">>, <<"/">> }

\* the update event of invocation record r cannot be routed: it carries no
\* parent id, or its database is registered with a malformed githubRepoId, or
\* it is registered with a githubRepoId while no token is configured
Unroutable(r) ==
    /\ r.kind = "webhook"
    /\ \/ r.raw = <<>>
       \/ LET updatedDatabase == find(registry, r.databaseId)
          IN  /\ updatedDatabase # <<>>
              /\ updatedDatabase[1].githubRepoId # <<>>
              /\ \/ ~WellFormedRepoId(updatedDatabase[1].githubRepoId)
                 \/ env.GITHUB_TOKEN = ""

\* the status handleDatabaseUpdate answers to the unroutable event of r
UnroutableStatus(r) ==
    IF r.raw = <<>> THEN 400
    ELSE IF ~WellFormedRepoId(find(registry, r.databaseId)[1].githubRepoId) THEN 400
    ELSE 500

\* C19: an update event that carries no parent database id, or whose database
\* is registered with a githubRepoId lacking the owner or the repo, or that is
\* handled while no GitHub token is configured, never gets past the reading of
\* the registry: no step of its invocation changes the store, no record exists
\* for its database, no dispatch is made, and it is answered 400 (no id,
\* malformed) or 500 (no token) unless the registry read itself failed; the
\* answer 400 is the same for every form of githubRepoId without owner or
\* without repo.
C19_UnroutableNoMutation ==
    [][/\ \A i \in InvIds :
            Unroutable(inv'[i]) =>
                /\ triggers' = triggers
                /\ fired' = fired
                /\ inv'[i].pc \in {"w_list", "done"}
                /\ inv'[i].dispatched = {}
                /\ inv'[i].raw = <<>> => inv'[i].pc = "done"
                /\ inv'[i].raw # <<>> => ~HasRecordAfter(inv'[i].databaseId)
                /\ (inv'[i].pc = "done" /\ inv'[i].failed = {}) =>
                      /\ inv'[i].status = UnroutableStatus(inv'[i])
                      /\ (inv[i].pc = "w_list" /\ inv'[i].status = 400) =>
                            \A g \in MalformedRepoIds :
                                /\ ~WellFormedRepoId(g)
                                /\ Reject(<<Db(inv[i].raw, g)>>, env) = 400]_vars

\* with no token configured, an update event for the database whose
\* githubRepoId has no repo has been answered 400 after time has passed, and
\* the store is empty
C19_Witness ==
    \E i \in InvIds :
        /\ WebhookDone(i) /\ inv[i].status = 400 /\ inv[i].failed = {}
        /\ inv[i].raw # <<>>
        /\ Unroutable(inv[i])
        /\ ~WellFormedRepoId(find(registry, inv[i].databaseId)[1].githubRepoId)
        /\ env.GITHUB_TOKEN = ""
        /\ clock > 0
        /\ triggers = <<>>

----------------------------------------------------------------------------
\* the fields of interface TriggerStatus
TriggerStatusFields == {"databaseId", "nextTriggerTime", "pending", "updatedAt"}

\* the stored records that name databaseId
RecordsOfAfter(databaseId) ==
    { key \in DOMAIN triggers' : triggers'[key].databaseId = databaseId }

\* C20: when updateTriggerStatus returns, the store holds under the database's
\* key a record with the four fields of TriggerStatus, pending = true,
\* updatedAt = the now of the call, databaseId = the database id and
\* nextTriggerTime = now + delay: it is computed from the call's arguments and
\* clock alone, so the times of a record written at an earlier time are both
\* replaced; the put adds no key besides that one; every record is stored
\* under the key of its own databaseId, so there is at most one per database.
C20_FullOverwrite ==
    [][/\ \A i \in InvIds :
            RecordWritten(i) =>
                LET k == inv[i].databaseId
                IN  /\ HasRecordAfter(k)
                    /\ DOMAIN RecordAfter(k) = TriggerStatusFields
                    /\ RecordAfter(k).pending = TRUE
                    /\ RecordAfter(k).updatedAt = inv[i].now
                    /\ RecordAfter(k).databaseId = k
                    /\ RecordAfter(k).nextTriggerTime
                          = inv[i].now + inv[i].delayMinutes * MsPerMinute
                    /\ DOMAIN triggers' = DOMAIN triggers \cup {TriggerKey(k)}
                    /\ (HasRecord(k) /\ Record(k).updatedAt < inv[i].now) =>
                          /\ RecordAfter(k).updatedAt # Record(k).updatedAt
                          /\ RecordAfter(k).nextTriggerTime # Record(k).nextTriggerTime
       /\ \A key \in DOMAIN triggers' : key = TriggerKey(triggers'[key].databaseId)
       /\ \A k \in Ids : Cardinality(RecordsOfAfter(k)) <= 1]_vars

\* an update event carrying the hyphenated id has replaced, minutes later, the
\* record written for the hyphen-free id: the store holds that single record,
\* with the later event's times
C20_Witness ==
    \E i \in InvIds :
        /\ inv[i].pc = "w_can"
        /\ inv[i].raw # inv[i].databaseId
        /\ inv[i].currentStatus # <<>>
        /\ inv[i].currentStatus[1].updatedAt < inv[i].now
        /\ DOMAIN triggers = {TriggerKey(inv[i].databaseId)}
        /\ Record(inv[i].databaseId)
              = Status(inv[i].databaseId, inv[i].now + inv[i].delayMinutes * MsPerMinute,
                       inv[i].now)
        /\ Record(inv[i].databaseId).updatedAt # inv[i].currentStatus[1].updatedAt
        /\ Record(inv[i].databaseId).nextTriggerTime
              # inv[i].currentStatus[1].nextTriggerTime

----------------------------------------------------------------------------
\* the stored records that name databaseId
RecordsOf(databaseId) ==
    { key \in DOMAIN triggers : triggers[key].databaseId = databaseId }

\* C21: handling an update event again at the instant of the record already
\* stored for its database leaves the store exactly as it was; an update for a
\* database that has a record adds no key; and after every update there is
\* exactly one record for the database, pending, whose times are those of this
\* event alone, however many events were handled before it.
C21_IdempotentUpdate ==
    [][\A i \in InvIds :
          RecordWritten(i) =>
              LET k == inv[i].databaseId
              IN  /\ (HasRecord(k) /\ Record(k).updatedAt = inv[i].now) =>
                        triggers' = triggers
                  /\ HasRecord(k) => DOMAIN triggers' = DOMAIN triggers
                  /\ Cardinality(RecordsOfAfter(k)) = 1
                  /\ RecordAfter(k).pending
                  /\ RecordAfter(k).updatedAt = inv[i].now
                  /\ RecordAfter(k).nextTriggerTime = inv[i].now + DelayMs(env)]_vars

\* the same update event has been handled a second time within the same minute,
\* after time had passed, during a positive delay: the record it read is the
\* record in the store, and it is the only one for that database
C21_Witness ==
    \E i \in InvIds :
        /\ inv[i].pc = "w_can" /\ DelayMs(env) > 0
        /\ inv[i].now > 0
        /\ inv[i].currentStatus # <<>>
        /\ inv[i].currentStatus[1].updatedAt = inv[i].now
        /\ Record(inv[i].databaseId) = inv[i].currentStatus[1]
        /\ RecordsOf(inv[i].databaseId) = {TriggerKey(inv[i].databaseId)}

----------------------------------------------------------------------------
\* C22: whenever a clearTriggerStatus call returns, the database has no
\* record and the other records are as they were; calling it once more would
\* change nothing; and when the database had no record to begin with (another
\* invocation deleted it first) the call returns all the same, the store is
\* unchanged and the handler goes on as after any deletion.
C22_IdempotentClear ==
    [][\A i \in InvIds :
          ClearOk(i) =>
              LET k == inv[i].databaseId
              IN  /\ triggers' = clearTriggerStatus(triggers, k)
                  /\ ~HasRecordAfter(k)
                  /\ clearTriggerStatus(triggers', k) = triggers'
                  /\ ~HasRecord(k) =>
                        /\ triggers' = triggers
                        /\ inv'[i].failed = inv[i].failed
                        /\ inv'[i].pc \in NotifyPcs \cup {"done", "s_get"}
                        /\ inv'[i].pc = "done" => inv'[i].status \in {0, 200}]_vars

\* two overlapping sweeps found the same record due and both dispatched; both
\* deletions have returned without a failure, the later one on a database
\* whose record was already gone
C22_Witness ==
    \E k \in Ids :
        /\ \A i \in {1, 2} :
              /\ inv[i].kind = "sweep"
              /\ k \in inv[i].dispatched
              /\ inv[i].failed = {}
              /\ inv[i].pc \in {"s_notify", "done"}
        /\ ~HasRecord(k)
        /\ fired[k] = 2

----------------------------------------------------------------------------
\* the awaits of handleDatabaseUpdate whose error reaches handleNotionWebhook's catch
WebhookThrowPcs == {"w_list", "w_put", "w_dispatch", "w_clear"}

\* the awaits of scheduled
SweepPcs == {"s_list", "s_get", "s_can", "s_dispatch", "s_clear", "s_notify"}

\* a call of invocation i has just failed
FailureMet(i) ==
    /\ inv'[i].kind # "idle"
    /\ \/ inv'[i].failed # inv[i].failed
       \/ inv'[i].unsent /\ ~inv[i].unsent

\* C23: whichever call fails, the handler stays in control.  In the webhook
\* handler a failure of the registry read, the record write, the dispatch or
\* the deletion is answered 500; a failed read inside the due check or a
\* failed notification lets the handler go on to its 200; no webhook
\* invocation ends without an HTTP status.  In the sweep a failure of the
\* registry read ends the sweep normally and any later failure moves it on to
\* the next database or to its normal end.
C23_NoUngracefulTermination ==
    [][\A i \in InvIds :
          /\ (FailureMet(i) /\ inv[i].kind = "webhook") =>
                IF inv[i].pc \in WebhookThrowPcs
                THEN inv'[i].pc = "done" /\ inv'[i].status = 500
                ELSE \/ inv'[i].pc = "done" /\ inv'[i].status = 200
                     \/ inv[i].pc = "w_can" /\ inv'[i].pc = "w_notify_pending"
          /\ (inv'[i].kind = "webhook" /\ inv'[i].pc = "done") =>
                inv'[i].status \in {200, 400, 500}
          /\ (FailureMet(i) /\ inv[i].kind = "sweep") =>
                /\ inv[i].pc \in SweepPcs
                /\ inv'[i].pc \in {"s_get", "done"}
                /\ inv'[i].pc = "s_get" =>
                      /\ inv[i].pc # "s_list"
                      /\ inv'[i].idx > inv[i].idx]_vars

\* a webhook invocation dispatched at once, the deletion of the record then
\* failed, and the handler answered 500 with the record still stored
C23_Witness ==
    \E i \in InvIds :
        /\ WebhookDone(i) /\ inv[i].status = 500
        /\ inv[i].databaseId \in inv[i].dispatched
        /\ inv[i].databaseId \in inv[i].failed
        /\ delFailed[inv[i].databaseId]
        /\ HasRecord(inv[i].databaseId)

----------------------------------------------------------------------------
(* telegram/bot.ts: handleTelegramMessage, and models/notionDatabase.ts *)

\* formatDatabaseId: id.replace(/-/g, '')
formatDatabaseId(id) == SelectSeq(id, LAMBDA c : c # "-")

\* A handler that takes every sender for the administrator
isAdminAnyone(from, e) == TRUE

\* ctx.from?.id.toString() === env.TELEGRAM_ADMIN_USER_ID ("" stands for an
\* unset variable)
isAdmin(from, e) == from = e.TELEGRAM_ADMIN_USER_ID

\* /^[a-zA-Z0-9]{32}$/.test(databaseId): the ids of the model stand for 32
\* characters; a hyphen is what the test refuses
ValidBindId(raw) == raw # <<>> /\ \A c \in DOMAIN raw : raw[c] # "-"

\* A findIndex that compares the stored id as it is
findIndexRaw(databases, formattedId) ==
    LET hits == { k \in DOMAIN databases : databases[k].id = formattedId }
    IN  IF hits = {} THEN 0 ELSE Min(hits)

\* databases.findIndex(db => formatDatabaseId(db.id) === formattedId), from 1; 0: none
findIndex(databases, formattedId) ==
    LET hits == { k \in DOMAIN databases : formatDatabaseId(databases[k].id) = formattedId }
    IN  IF hits = {} THEN 0 ELSE Min(hits)

\* updateNotionDatabase: databases[index] = {...databases[index], ...updates}
updateEntry(databases, index, githubRepoId) ==
    [databases EXCEPT ![index] = [id |-> databases[index].id, githubRepoId |-> githubRepoId]]

\* addNotionDatabase: replace the entry of the same id, or push
addEntry(databases, database) ==
    LET existingIndex == findIndex(databases, formatDatabaseId(database.id))
    IN  IF existingIndex > 0
        THEN [databases EXCEPT ![existingIndex] = database]
        ELSE Append(databases, database)

\* deleteNotionDatabase: databases.filter(db => formatDatabaseId(db.id) !== formattedId)
deleteEntry(databases, formattedId) ==
    SelectSeq(databases, LAMBDA db : formatDatabaseId(db.id) # formattedId)

\* A confirm_trigger that dispatches for whatever database it is given
TriggerRefusedNever(database, e) == FALSE

\* confirm_trigger: the database is unknown, or has no githubRepoId, or its
\* githubRepoId lacks owner or repo, or no token is configured
TriggerRefused(database, e) ==
    \/ database = <<>>
    \/ database[1].githubRepoId = <<>>
    \/ ~WellFormedRepoId(database[1].githubRepoId)
    \/ e.GITHUB_TOKEN = ""

\* A manual trigger that clears the database's trigger record
StoreAfterManualCleared(kv, databaseId) ==
    [k \in DOMAIN kv \ {TriggerKey(databaseId)} |-> kv[k]]

\* the trigger records after a manual dispatch: confirm_trigger calls neither
\* updateTriggerStatus nor clearTriggerStatus
StoreAfterManual(kv, databaseId) == kv

\* the handler's last reply (ctx.reply, answerCallbackQuery, editMessageText):
\* when it throws, handleTelegramWebhook's catch answers 500
Answer(r, ok) == Respond(r, IF ok THEN 200 ELSE 500)

BotOthers == <<clock, env, registry, triggers, lastNotify, fired, delFailed, manual>>

BotRest == <<clock, env, triggers, lastNotify, fired, delFailed, manual>>

\* the commands and callback queries that reach the registry or a dispatch
Queries == {"bind", "list_dbs", "confirm_remove", "confirm_trigger"}

\* the senders: the user whose id the environments with an administrator
\* configure, and another user (a command a handler can parse and a
\* callback query always carry their sender)
Senders == {"100", "200"}

\* the database ids of Telegram updates: a registered linked one (hyphenated),
\* the unlinked one, one not registered
BotRawIds == { InitialRegistry[1].id, InitialRegistry[3].id, <<"x">> }

\* the database ids of /bind: one not registered, and a hyphenated one
BindRawIds == { <<"x">>, InitialRegistry[1].id }

\* the environments of the runs with Telegram updates: administrator and
\* token configured, no administrator, no token
BotEnvs == { e \in Envs : e.TRIGGER_DELAY_MINUTES \in { <<"1">>, <<"2">> } }

\* the repository arguments of /bind
BindRepoIds == { <<"o", "/", "r">>, <<"o", "/">> }

\* a Telegram update arrives at /api/telegram/webhook
TelegramArrive(i, query, from, raw, repoId) ==
    /\ FreeSlot(i)
    /\ inv' = [inv EXCEPT ![i] =
                 LET r == [Idle EXCEPT !.kind = "telegram", !.pc = "t_init", !.query = query,
                                       !.from = from, !.raw = raw, !.repoId = repoId,
                                       !.databaseId = formatDatabaseId(raw)]
                 IN  IF env.TELEGRAM_BOT_TOKEN = "" THEN Respond(r, 500) ELSE r]
    /\ UNCHANGED BotOthers

\* the same, while no other invocation is in flight
StartTelegram(i, query, from, raw, repoId) ==
    Quiet /\ TelegramArrive(i, query, from, raw, repoId)

\* await bot.init(); await bot.api.setMyCommands(...); then the handler's
\* tests up to its first await
TelegramInit(i) ==
    /\ inv[i].kind = "telegram" /\ inv[i].pc = "t_init"
    /\ \E ok \in BOOLEAN :
          inv' = [inv EXCEPT ![i] =
                    IF inv[i].query = "bind"
                    THEN IF ok /\ isAdmin(inv[i].from, env) /\ ValidBindId(inv[i].raw)
                         THEN [@ EXCEPT !.pc = "t_list"]
                         ELSE Answer(@, ok)
                    ELSE IF ok THEN [@ EXCEPT !.pc = "t_find"] ELSE Answer(@, ok)]
    /\ UNCHANGED BotOthers

\* bind: const databases = await getAllNotionDatabasesFromKV(...); an existing
\* database is updated; a new one is retrieved from Notion, and the token is
\* tested, before the repository is validated
BindList(i) ==
    /\ inv[i].kind = "telegram" /\ inv[i].pc = "t_list"
    /\ \E ok, retrieved, replied \in BOOLEAN :
          inv' = [inv EXCEPT ![i] =
                    IF ~ok THEN Answer(Failed(@, @.databaseId), replied)
                    ELSE IF find(registry, inv[i].databaseId) # <<>>
                    THEN [@ EXCEPT !.pc = "t_upd_get",
                                   !.database = find(registry, inv[i].databaseId)]
                    ELSE IF ~retrieved THEN Answer(Failed(@, @.databaseId), replied)
                    ELSE IF env.GITHUB_TOKEN = "" THEN Answer(@, replied)
                    ELSE [@ EXCEPT !.pc = "t_validate"]]
    /\ UNCHANGED BotOthers

\* A bind whose catch of the validation error logs it and goes on to add the database
ValidationIgnored(r, replied) == [Failed(r, r.databaseId) EXCEPT !.pc = "t_add_get"]

\* bind: the validation dispatch throws; the catch replies and returns
ValidationFailed(r, replied) == Answer(Failed(r, r.databaseId), replied)

\* bind: await triggerGitHubAction(env.GITHUB_TOKEN, owner, repo), to validate the repository
BindValidate(i) ==
    /\ inv[i].kind = "telegram" /\ inv[i].pc = "t_validate"
    /\ \/ /\ WellFormedRepoId(inv[i].repoId)
          /\ inv' = [inv EXCEPT ![i] =
                       [Dispatched(@, @.databaseId) EXCEPT
                           !.pc = "t_add_get",
                           !.target = Append(inv[i].target,
                                             <<Owner(inv[i].repoId), Repo(inv[i].repoId)>>)]]
       \/ \E replied \in BOOLEAN :
             inv' = [inv EXCEPT ![i] = ValidationFailed(@, replied)]
    /\ UNCHANGED BotOthers

\* addNotionDatabase: const databases = await getAllNotionDatabasesFromKV(kv)
BindAddGet(i) ==
    /\ inv[i].kind = "telegram" /\ inv[i].pc = "t_add_get"
    /\ \/ inv' = [inv EXCEPT ![i] = [@ EXCEPT !.pc = "t_add_put", !.databases = registry]]
       \/ \E replied \in BOOLEAN :
             inv' = [inv EXCEPT ![i] = Answer(Failed(@, @.databaseId), replied)]
    /\ UNCHANGED BotOthers

\* addNotionDatabase: await kv.put(NOTION_DATABASES_KEY, JSON.stringify(databases))
BindAddPut(i) ==
    /\ inv[i].kind = "telegram" /\ inv[i].pc = "t_add_put"
    /\ \E replied \in BOOLEAN :
          \/ /\ registry' = addEntry(inv[i].databases, Db(inv[i].raw, inv[i].repoId))
             /\ inv' = [inv EXCEPT ![i] = Answer(@, replied)]
          \/ /\ inv' = [inv EXCEPT ![i] = Answer(Failed(@, @.databaseId), replied)]
             /\ UNCHANGED registry
    /\ UNCHANGED BotRest

\* updateNotionDatabase: read the list and look the database up; it throws
\* when the database is not there
BindUpdGet(i) ==
    /\ inv[i].kind = "telegram" /\ inv[i].pc = "t_upd_get"
    /\ \E ok, replied \in BOOLEAN :
          inv' = [inv EXCEPT ![i] =
                    IF ok /\ findIndex(registry, inv[i].databaseId) > 0
                    THEN [@ EXCEPT !.pc = "t_upd_put", !.databases = registry]
                    ELSE Answer(Failed(@, @.databaseId), replied)]
    /\ UNCHANGED BotOthers

\* updateNotionDatabase: await kv.put(NOTION_DATABASES_KEY, JSON.stringify(databases))
BindUpdPut(i) ==
    /\ inv[i].kind = "telegram" /\ inv[i].pc = "t_upd_put"
    /\ \E replied \in BOOLEAN :
          \/ /\ registry' = updateEntry(inv[i].databases,
                                        findIndex(inv[i].databases, inv[i].databaseId),
                                        inv[i].repoId)
             /\ inv' = [inv EXCEPT ![i] = Answer(@, replied)]
          \/ /\ inv' = [inv EXCEPT ![i] = Answer(Failed(@, @.databaseId), replied)]
             /\ UNCHANGED registry
    /\ UNCHANGED BotRest

\* a callback: const database = await getNotionDatabase(...), from the registry
\* or else from the Notion API (without a repository, or null when that
\* fails); then the handler's tests up to its next await
CallbackFind(i) ==
    /\ inv[i].kind = "telegram" /\ inv[i].pc = "t_find"
    /\ \E ok, retrieved, replied \in BOOLEAN :
          LET found == find(registry, inv[i].databaseId)
              database == IF found # <<>> THEN found
                          ELSE IF retrieved THEN <<Db(inv[i].raw, <<>>)>>
                          ELSE <<>>
          IN  inv' = [inv EXCEPT ![i] =
                IF ~ok THEN Answer(Failed(@, @.databaseId), replied)
                ELSE IF database = <<>> \/ inv[i].query = "list_dbs"
                THEN Answer([@ EXCEPT !.database = database], replied)
                ELSE IF inv[i].query = "confirm_remove"
                THEN IF isAdmin(inv[i].from, env)
                     THEN [@ EXCEPT !.pc = "t_del_get", !.database = database]
                     ELSE Answer([@ EXCEPT !.database = database], replied)
                ELSE IF TriggerRefused(database, env)
                     THEN Answer([@ EXCEPT !.database = database], replied)
                     ELSE [@ EXCEPT !.pc = "t_dispatch", !.database = database]]
    /\ UNCHANGED BotOthers

\* deleteNotionDatabase: const databases = await getAllNotionDatabasesFromKV(kv)
RemoveGet(i) ==
    /\ inv[i].kind = "telegram" /\ inv[i].pc = "t_del_get"
    /\ \/ inv' = [inv EXCEPT ![i] = [@ EXCEPT !.pc = "t_del_put", !.databases = registry]]
       \/ \E replied \in BOOLEAN :
             inv' = [inv EXCEPT ![i] = Answer(Failed(@, @.databaseId), replied)]
    /\ UNCHANGED BotOthers

\* deleteNotionDatabase: await kv.put(NOTION_DATABASES_KEY, JSON.stringify(filteredDatabases))
RemovePut(i) ==
    /\ inv[i].kind = "telegram" /\ inv[i].pc = "t_del_put"
    /\ \E replied \in BOOLEAN :
          \/ /\ registry' = deleteEntry(inv[i].databases, inv[i].databaseId)
             /\ inv' = [inv EXCEPT ![i] = Answer(@, replied)]
          \/ /\ inv' = [inv EXCEPT ![i] = Answer(Failed(@, @.databaseId), replied)]
             /\ UNCHANGED registry
    /\ UNCHANGED BotRest

\* confirm_trigger: await triggerGitHubAction(env.GITHUB_TOKEN, owner, repo)
TriggerDispatch(i) ==
    /\ inv[i].kind = "telegram" /\ inv[i].pc = "t_dispatch"
    /\ \E replied \in BOOLEAN :
          \/ /\ inv' = [inv EXCEPT ![i] =
                          Answer([Dispatched(@, @.databaseId) EXCEPT
                                     !.target = Append(inv[i].target,
                                         <<Owner(inv[i].database[1].githubRepoId),
                                           Repo(inv[i].database[1].githubRepoId)>>)],
                                 replied)]
             /\ manual' = [manual EXCEPT ![inv[i].databaseId] =
                                       IF @ < ManualCap THEN @ + 1 ELSE @]
             /\ triggers' = StoreAfterManual(triggers, inv[i].databaseId)
          \/ /\ inv' = [inv EXCEPT ![i] = Answer(Failed(@, @.databaseId), replied)]
             /\ UNCHANGED <<manual, triggers>>
    /\ UNCHANGED <<clock, env, registry, lastNotify, fired, delFailed>>

TelegramStep(i) ==
    \/ TelegramInit(i)
    \/ BindList(i)
    \/ BindValidate(i)
    \/ BindAddGet(i)
    \/ BindAddPut(i)
    \/ BindUpdGet(i)
    \/ BindUpdPut(i)
    \/ CallbackFind(i)
    \/ RemoveGet(i)
    \/ RemovePut(i)
    \/ TriggerDispatch(i)

\* the sweep's awaits
SweepStep(i) ==
    \/ SweepList(i)
    \/ SweepRead(i)
    \/ SweepCheck(i)
    \/ SweepDispatch(i)
    \/ SweepClear(i)
    \/ SweepNotify(i)

BotHorizonMs == BotMaxTime * MsPerMinute

TickBot ==
    /\ clock + MsPerMinute <= BotHorizonMs
    /\ clock' = clock + MsPerMinute
    /\ UNCHANGED <<env, manual, registry, triggers, inv, lastNotify, fired, delFailed>>

\* the store holds nothing, or a pending record of the first database that
\* falls due after one minute
InitBot ==
    /\ clock = 0
    /\ env \in BotEnvs
    /\ registry = InitialRegistry
    /\ LET k == formatNotionId(InitialRegistry[1].id)
       IN  triggers \in { <<>>,
                          StoreOf({k}, [d \in {k} |->
                                          [pending |-> TRUE, nextTriggerTime |-> MsPerMinute]]) }
    /\ inv = [j \in InvIds |-> Idle]
    /\ lastNotify = [d \in Ids |-> -1]
    /\ fired = [d \in Ids |-> 0]
    /\ delFailed = [d \in Ids |-> FALSE]
    /\ manual = [d \in Ids |-> 0]

\* Telegram updates and sweeps, one at a time
NextBot ==
    \/ TickBot
    \/ \E i \in InvIds :
          \/ \E from \in Senders, raw \in BindRawIds, repoId \in BindRepoIds :
                StartTelegram(i, "bind", from, raw, repoId)
          \/ \E query \in Queries \ {"bind"}, from \in Senders, raw \in BotRawIds :
                StartTelegram(i, query, from, raw, <<>>)
          \/ TelegramStep(i)
          \/ StartSweep(i)
          \/ SweepStep(i)
          \/ Return(i)

SpecBot == InitBot /\ [][NextBot]_vars

----------------------------------------------------------------------------
\* the pcs at which bind and confirm_remove read and write the registry
RegistryWritePcs ==
    {"t_list", "t_validate", "t_add_get", "t_add_put", "t_upd_get", "t_upd_put",
     "t_del_get", "t_del_put"}

\* the update of invocation record r was sent by a user who is not the administrator
FromOtherUser(r) ==
    r.kind = "telegram" /\ r.from # "" /\ r.from # env.TELEGRAM_ADMIN_USER_ID

\* C24: a Telegram update sent by a user whose id is not
\* TELEGRAM_ADMIN_USER_ID, whether or not an administrator is configured,
\* never reaches the part of bind or confirm_remove that reads and writes the
\* registry, and no step of its handler changes the registry; the registry
\* changes only in a step of a bind or confirm_remove whose sender passes the
\* administrator test.
C24_OnlyAdminChangesRegistry ==
    [][/\ \A i \in InvIds :
            FromOtherUser(inv'[i]) =>
                /\ registry' = registry
                /\ inv'[i].pc \notin RegistryWritePcs
       /\ registry' # registry =>
            \E i \in InvIds :
                /\ inv[i].kind = "telegram"
                /\ inv[i].pc \in {"t_add_put", "t_upd_put", "t_del_put"}
                /\ inv'[i].pc = "done"
                /\ inv[i].query \in {"bind", "confirm_remove"}
                /\ isAdmin(inv[i].from, env)]_vars

\* with no administrator configured, a user's confirm_remove for a registered
\* database has been answered and the registry is as it was
C24_Witness ==
    \E i \in InvIds :
        /\ inv[i].kind = "telegram" /\ inv[i].pc = "done" /\ inv[i].status = 200
        /\ inv[i].query = "confirm_remove"
        /\ env.TELEGRAM_ADMIN_USER_ID = ""
        /\ FromOtherUser(inv[i])
        /\ inv[i].database # <<>>
        /\ find(registry, inv[i].databaseId) = inv[i].database
        /\ registry = InitialRegistry

----------------------------------------------------------------------------
\* invocation i is the handler of a confirm_trigger callback
ManualTrigger(i) == inv[i].kind = "telegram" /\ inv[i].query = "confirm_trigger"

\* the owner/repo pair that the registry binds to databaseId
BoundTarget(databaseId) ==
    LET githubRepoId == find(registry, databaseId)[1].githubRepoId
    IN  <<Owner(githubRepoId), Repo(githubRepoId)>>

\* C25: a confirm_trigger reaches its dispatch call only for a database that
\* the registry holds with a well-formed githubRepoId and while a token is
\* configured; when the call returns, that invocation has dispatched exactly
\* once, to the owner and repo the registry binds to the database, and it
\* ends there; when it throws, nothing was dispatched; an invocation for an
\* unknown or unlinked database ends without a dispatch; and a manual dispatch
\* is counted for a database only by such a step.
C25_ManualTriggerOnlyLinked ==
    [][/\ \A i \in InvIds :
            /\ (ManualTrigger(i) /\ inv[i].pc # "t_dispatch" /\ inv'[i].pc = "t_dispatch") =>
                  LET known == find(registry, inv[i].databaseId)
                  IN  /\ known # <<>>
                      /\ inv'[i].database = known
                      /\ WellFormedRepoId(known[1].githubRepoId)
                      /\ env.GITHUB_TOKEN # ""
                      /\ inv'[i].target = <<>>
            /\ (ManualTrigger(i) /\ inv[i].pc = "t_dispatch" /\ inv'[i].pc # "t_dispatch") =>
                  /\ inv'[i].pc = "done"
                  /\ IF inv[i].databaseId \in inv'[i].failed
                     THEN inv'[i].target = <<>> /\ manual' = manual
                     ELSE /\ inv'[i].target = <<BoundTarget(inv[i].databaseId)>>
                          /\ inv'[i].dispatched = {inv[i].databaseId}
            /\ (ManualTrigger(i) /\ inv[i].pc = "done") =>
                  /\ Len(inv[i].target) <= 1
                  /\ (inv[i].database = <<>> \/ inv[i].database[1].githubRepoId = <<>>) =>
                        (inv[i].target = <<>> /\ inv[i].dispatched = {})
       /\ \A k \in Ids :
            manual'[k] # manual[k] =>
                \E i \in InvIds :
                    /\ ManualTrigger(i) /\ inv[i].pc = "t_dispatch" /\ inv[i].databaseId = k
                    /\ inv'[i].target = <<BoundTarget(k)>>]_vars

\* a user who is not the administrator confirmed a manual trigger of the
\* first database: one dispatch went to its owner and repo
C25_Witness ==
    \E i \in InvIds :
        /\ ManualTrigger(i) /\ inv[i].pc = "done"
        /\ inv[i].from # env.TELEGRAM_ADMIN_USER_ID
        /\ inv[i].databaseId = formatDatabaseId(InitialRegistry[1].id)
        /\ inv[i].target = << <<Owner(InitialRegistry[1].githubRepoId),
                                Repo(InitialRegistry[1].githubRepoId)>> >>
        /\ manual[inv[i].databaseId] = 1

----------------------------------------------------------------------------
\* handleDatabaseUpdate has just read the delay and entered updateTriggerStatus
DelayRead(i) == inv[i].pc = "w_list" /\ inv'[i].pc = "w_get"

\* C26: the webhook handler's delayMinutes is 5 when TRIGGER_DELAY_MINUTES is
\* unset or empty and the number written in it otherwise, 0 included
\* (parseInt reads "0" as 0 and "15" as 15); the record it then writes has
\* its deadline that many minutes after the handler's now.
C26_DefaultDelay ==
    [][\A i \in InvIds :
          /\ DelayRead(i) =>
                /\ env.TRIGGER_DELAY_MINUTES = <<>> => inv'[i].delayMinutes = 5
                /\ \A n \in 0 .. 9 :
                      env.TRIGGER_DELAY_MINUTES = <<Digits[n + 1]>> =>
                          inv'[i].delayMinutes = n
                /\ parseInt(<<"0">>) = 0
                /\ parseInt(<<"1", "5">>) = 15
          /\ RecordWritten(i) =>
                /\ env.TRIGGER_DELAY_MINUTES = <<>> =>
                      RecordAfter(inv[i].databaseId).nextTriggerTime = inv[i].now + 5 * 60 * 1000
                /\ \A n \in 0 .. 9 :
                      env.TRIGGER_DELAY_MINUTES = <<Digits[n + 1]>> =>
                          RecordAfter(inv[i].databaseId).nextTriggerTime
                              = inv[i].now + n * 60 * 1000]_vars

\* with TRIGGER_DELAY_MINUTES unset, an update event handled at minute 1 has
\* left a record due at minute 6 and the handler is announcing the delay
C26_Witness ==
    \E i \in InvIds :
        /\ env.TRIGGER_DELAY_MINUTES = <<>>
        /\ inv[i].pc = "w_notify_pending"
        /\ inv[i].delayMinutes = 5
        /\ inv[i].now = 60 * 1000
        /\ HasRecord(inv[i].databaseId)
        /\ Record(inv[i].databaseId).nextTriggerTime = 6 * 60 * 1000
        /\ ~inv[i].due

----------------------------------------------------------------------------
\* C27: with a webhook invocation and a sweep overlapping on the same
\* database, the sweep deletes only a record for which a dispatch has
\* succeeded since that record was written: an update whose put completed
\* after the sweep's dispatch is not deleted undispatched.
C27_NoUpdateLostToSweep ==
    [][\A i \in InvIds :
          (ClearOk(i) /\ inv[i].kind = "sweep" /\ HasRecord(inv[i].databaseId)) =>
              fired[inv[i].databaseId] >= 1]_vars

----------------------------------------------------------------------------
(* Overlapping sweeps over a store that nothing else writes: the records are
   those the store starts with, so two dispatches for one database are
   dispatches for the same pending record *)

\* the records an accepted update leaves: pending, due now or in two minutes
PendingInputs == { d \in DueInputs : d.pending }

InitSweeps ==
    /\ clock = 0
    /\ env \in OverlapEnvs
    /\ registry = SubSeq(InitialRegistry, 1, 2)
    /\ \E S \in SUBSET { formatNotionId(InitialRegistry[1].id) } :
       \E g \in [RoutableIds -> PendingInputs] :
          triggers = StoreOf(S, g)
    /\ inv = [j \in InvIds |-> Idle]
    /\ lastNotify = [d \in Ids |-> -1]
    /\ fired = [d \in Ids |-> 0]
    /\ delFailed = [d \in Ids |-> FALSE]
    /\ manual = [d \in Ids |-> 0]

NextSweeps ==
    \/ TickOverlap
    \/ \E i \in OverlapInvIds : Cron(i) \/ SweepStep(i) \/ Return(i)

SpecSweeps == InitSweeps /\ [][NextSweeps]_vars

\* the invocations in flight that are in, or are past, their dispatch call for databaseId
Issuers(databaseId) ==
    { i \in InvIds :
        \/ inv[i].pc \in DispatchPcs /\ inv[i].databaseId = databaseId
        \/ databaseId \in inv[i].dispatched }

\* C28: of the invocations that overlap while a record is due, at most one
\* issues the dispatch call for it.
C28_OneDispatchUnderOverlap ==
    \A k \in Ids : Cardinality(Issuers(k)) <= 1

\* the pcs of the two canTriggerActions checks
CheckPcs == {"w_can", "s_can"}

\* a step has removed the record of databaseId from the store
Deleted(databaseId) == HasRecord(databaseId) /\ ~HasRecordAfter(databaseId)

\* C29: the webhook handler and the sweep reach clearTriggerStatus only from
\* their own dispatch call, when it has just returned, for the same database;
\* a record leaves the store only in a clearTriggerStatus step of an invocation
\* whose dispatch for that database has returned and has met no failure for
\* it; a dispatch that throws and a check that skips the dispatch leave the
\* store as it was and do not lead to clearTriggerStatus.
C29_DispatchPrecedesDeletion ==
    [][/\ \A i \in InvIds :
            /\ (inv'[i].pc \in ClearPcs /\ inv[i].pc \notin ClearPcs) =>
                    /\ DispatchOk(i)
                    /\ inv'[i].databaseId = inv[i].databaseId
            /\ inv[i].pc \in ClearPcs =>
                    /\ inv[i].databaseId \in inv[i].dispatched
                    /\ inv[i].databaseId \notin inv[i].failed
            /\ DispatchFailed(i) =>
                    /\ triggers' = triggers
                    /\ inv'[i].pc \notin ClearPcs
            /\ (inv[i].pc \in CheckPcs /\ inv'[i].pc \notin CheckPcs \cup DispatchPcs) =>
                    /\ triggers' = triggers
                    /\ inv'[i].pc \notin ClearPcs
       /\ \A k \in Ids :
            Deleted(k) =>
                \E i \in InvIds :
                    /\ ClearOk(i)
                    /\ inv[i].databaseId = k
                    /\ k \in inv[i].dispatched \ inv[i].failed]_vars

\* a sweep whose dispatch for one database threw and whose dispatch for another
\* returned: the record of the first is still there, that of the second is gone
C29_Witness ==
    \E i \in InvIds : \E k1, k2 \in Ids :
        /\ inv[i].kind = "sweep"
        /\ k1 \in (inv[i].dueAtStart \cap inv[i].failed) \ inv[i].dispatched
        /\ HasRecord(k1) /\ Record(k1).pending /\ clock >= Record(k1).nextTriggerTime
        /\ k2 \in inv[i].dispatched \ inv[i].failed
        /\ ~HasRecord(k2)

----------------------------------------------------------------------------
\* invocation i, a Telegram handler, takes a step (its start and its return included)
TelegramActs(i) ==
    /\ inv'[i] # inv[i]
    /\ inv[i].kind = "telegram" \/ inv'[i].kind = "telegram"

\* invocation i's manual dispatch has just returned
ManualDispatchOk(i) ==
    /\ ManualTrigger(i) /\ inv[i].pc = "t_dispatch"
    /\ inv[i].databaseId \in inv'[i].dispatched

\* C30: no step of a bind, a list, a remove or a manual trigger changes the
\* trigger records; a manual dispatch that returns for a database with a
\* pending record leaves that record as it was; and a sweep that reads a
\* pending record at or after its deadline, for a database still bound to a
\* well-formed repository and with a token configured, goes on to its
\* dispatch whether or not a manual dispatch happened before.
C30_TelegramLeavesTriggers ==
    [][\A i \in InvIds :
          /\ TelegramActs(i) => triggers' = triggers
          /\ (ManualDispatchOk(i) /\ HasRecord(inv[i].databaseId)) =>
                /\ HasRecordAfter(inv[i].databaseId)
                /\ RecordAfter(inv[i].databaseId) = Record(inv[i].databaseId)
          /\ ( /\ inv[i].kind = "sweep" /\ inv[i].pc = "s_can"
               /\ inv'[i] # inv[i]
               /\ manual[inv[i].databaseId] >= 1
               /\ StoredDue(inv[i].databaseId)
               /\ inv[i].databaseId \notin inv'[i].failed
               /\ WellFormedRepoId(inv[i].database[1].githubRepoId)
               /\ env.GITHUB_TOKEN # "" ) =>
                inv'[i].pc = "s_dispatch"]_vars

\* after a manual dispatch for a database with a pending record, a sweep has
\* found the record due, its own dispatch has returned and it is about to
\* delete the record
C30_Witness ==
    \E i \in InvIds :
        /\ inv[i].kind = "sweep" /\ inv[i].pc = "s_clear"
        /\ manual[inv[i].databaseId] >= 1
        /\ fired[inv[i].databaseId] = 1
        /\ inv[i].databaseId \in inv[i].dispatched
        /\ HasRecord(inv[i].databaseId) /\ Record(inv[i].databaseId).pending

----------------------------------------------------------------------------
\* the registry holds databaseId with a githubRepoId, so the sweep's loop visits it
Visited(databaseId) ==
    \E n \in DOMAIN registry :
        /\ formatNotionId(registry[n].id) = databaseId
        /\ registry[n].githubRepoId # <<>>

\* C31: every stored trigger record belongs to a database that the registry
\* holds with a dispatch target.
C31_NoOrphanedRecords ==
    \A k \in Ids : HasRecord(k) => Visited(k)

----------------------------------------------------------------------------
\* C32: every stored trigger record is pending, carries the id of its key, and
\* has nextTriggerTime = updatedAt + delay * 60000 for the configured delay,
\* hence nextTriggerTime >= updatedAt; updatedAt is the time of the accepted
\* update that wrote it.
C32_RecordShape ==
    \A k \in Ids :
        HasRecord(k) =>
            /\ Record(k).pending
            /\ Record(k).databaseId = k
            /\ Record(k).nextTriggerTime = Record(k).updatedAt + DelayMinutes(env) * MsPerMinute
            /\ Record(k).nextTriggerTime >= Record(k).updatedAt
            /\ Record(k).updatedAt = lastNotify[k]
            /\ DOMAIN Record(k) = TriggerStatusFields

\* a record written by an update that arrived after time 0, over an earlier
\* one, under a delay of at least a minute
C32_Witness ==
    \E i \in InvIds : \E k \in Ids :
        /\ inv[i].kind = "webhook" /\ inv[i].pc = "w_can" /\ inv[i].databaseId = k
        /\ inv[i].currentStatus # <<>>
        /\ HasRecord(k)
        /\ Record(k).updatedAt > inv[i].currentStatus[1].updatedAt
        /\ Record(k).nextTriggerTime > Record(k).updatedAt

----------------------------------------------------------------------------
(* The sweep over a store that holds records for every kind of linked
   database, the one with a malformed repository id included *)

\* the registry's databases that have a githubRepoId, well-formed or not
LinkedIds ==
    { formatNotionId(InitialRegistry[n].id) :
        n \in { m \in DOMAIN InitialRegistry : InitialRegistry[m].githubRepoId # <<>> } }

\* pending records, due now or in two minutes
SkipInputs == { d \in DueInputs : d.pending }

InitSkip ==
    /\ clock = 0
    /\ env \in Envs
    /\ registry = InitialRegistry
    /\ \E S \in SUBSET LinkedIds : \E g \in [LinkedIds -> SkipInputs] :
          triggers = StoreOf(S, g)
    /\ inv = [j \in InvIds |-> Idle]
    /\ lastNotify = [d \in Ids |-> -1]
    /\ fired = [d \in Ids |-> 0]
    /\ delFailed = [d \in Ids |-> FALSE]
    /\ manual = [d \in Ids |-> 0]

SpecSkip == InitSkip /\ [][NextDue]_vars

\* the sweep of invocation i is inside the loop body of a database
InLoop(i) == inv[i].kind = "sweep" /\ inv[i].pc \in SweepPcs \ {"s_list", "done"}

\* owner and repo of the database the sweep is at are both there
HasTarget(r) ==
    /\ Owner(r.database[1].githubRepoId) # <<>>
    /\ Repo(r.database[1].githubRepoId) # <<>>

\* the sweep's loop has gone on from the database at r.idx to the next linked one
WentOn(r, after) ==
    LET k == NextLinked(r.databases, r.idx + 1)
    IN  IF k = 0 THEN after.pc = "done"
        ELSE /\ after.pc = "s_get" /\ after.idx = k
             /\ after.databaseId = formatNotionId(r.databases[k].id)

\* C33: a sweep never enters the loop body for a database without a
\* githubRepoId; it is at its dispatch call only for a database with owner and
\* repo and with a token configured; when its check answers due for a database
\* with a malformed repository id or without a token, that step changes no
\* record and dispatches nothing, and the sweep is at the next linked database
\* (or at its end); and whatever a sweep dispatches or deletes has owner, repo
\* and token.
C33_SweepSkipsUnroutable ==
    [][\A i \in InvIds :
          /\ InLoop(i) => inv[i].database[1].githubRepoId # <<>>
          /\ (inv[i].kind = "sweep" /\ inv[i].pc \in {"s_dispatch", "s_clear"}) =>
                HasTarget(inv[i]) /\ env.GITHUB_TOKEN # ""
          /\ ( /\ inv[i].kind = "sweep" /\ inv[i].pc = "s_can" /\ inv'[i] # inv[i]
               /\ ~HasTarget(inv[i]) \/ env.GITHUB_TOKEN = "" ) =>
                /\ triggers' = triggers
                /\ fired' = fired
                /\ inv'[i].dispatched = inv[i].dispatched
                /\ WentOn(inv[i], inv'[i])
          /\ (inv[i].kind = "sweep" /\ triggers' # triggers) =>
                HasTarget(inv[i]) /\ env.GITHUB_TOKEN # ""]_vars

\* a sweep has found the record of the database with the malformed repository
\* id due, has skipped it and is at the last database; the record is still
\* there, still due, and nothing was dispatched for it
C33_Witness ==
    \E i \in InvIds :
        LET m == formatNotionId(InitialRegistry[2].id)
        IN  /\ inv[i].kind = "sweep" /\ inv[i].pc = "s_get" /\ inv[i].idx = 4
            /\ inv[i].due
            /\ m \notin inv[i].dispatched \cup inv[i].failed
            /\ HasRecord(m) /\ Record(m).pending /\ clock >= Record(m).nextTriggerTime
            /\ fired[m] = 0

----------------------------------------------------------------------------
(* notion/webhook.ts: handleNotionWebhook, from the request to the handler *)

\* String.prototype.startsWith
startsWith(s, prefix) ==
    Len(s) >= Len(prefix) /\ SubSeq(s, 1, Len(prefix)) = prefix

PagePrefix == <<"p", "a", "g", "e", ".">>

DatabasePrefix == <<"d", "a", "t", "a", "b", "a", "s", "e", ".">>

\* a request: its method, whether it carries x-notion-signature, whether its
\* body parses as JSON, whether the body has a verification_token, body.type
\* (empty when missing) and body.data.parent.id (empty when missing)
Req(method, signed, json, verification, type, parent) ==
    [method |-> method, signed |-> signed, json |-> json,
     verification |-> verification, type |-> type, parent |-> parent]

PageEvent(parent) == Req("POST", TRUE, TRUE, FALSE, PagePrefix \o <<"u">>, parent)

Requests ==
    { PageEvent(InitialRegistry[1].id),
      Req("POST", TRUE, TRUE, FALSE, DatabasePrefix \o <<"u">>, InitialRegistry[1].id),
      PageEvent(<<>>),
      Req("OPTIONS", FALSE, TRUE, FALSE, <<>>, <<>>),
      [PageEvent(InitialRegistry[1].id) EXCEPT !.method = "GET"],
      [PageEvent(InitialRegistry[1].id) EXCEPT !.signed = FALSE],
      [PageEvent(InitialRegistry[1].id) EXCEPT !.json = FALSE],
      [PageEvent(InitialRegistry[1].id) EXCEPT !.verification = TRUE],
      [PageEvent(InitialRegistry[1].id) EXCEPT !.type = <<"p", "a", "g", "e">>],
      [PageEvent(InitialRegistry[1].id) EXCEPT !.type = <<"c", ".", "u">>],
      [PageEvent(InitialRegistry[1].id) EXCEPT !.type = <<>>] }

\* A handleNotionWebhook that does not look at the signature header
GateNoSignature(req) ==
    IF req.method = "OPTIONS" THEN 200
    ELSE IF req.method # "POST" THEN 405
    ELSE IF ~req.json THEN 500
    ELSE IF req.verification THEN 1
    ELSE IF ~startsWith(req.type, PagePrefix) /\ ~startsWith(req.type, DatabasePrefix) THEN 200
    ELSE IF req.parent = <<>> THEN 400
    ELSE 0

\* the early returns of handleNotionWebhook and handleDatabaseUpdate: the
\* status answered, 1 for the verification handshake, or 0 when the event
\* goes on to the registry
Gate(req) ==
    IF req.method = "OPTIONS" THEN 200
    ELSE IF req.method # "POST" THEN 405
    ELSE IF ~req.signed THEN 401
    ELSE IF ~req.json THEN 500
    ELSE IF req.verification THEN 1
    ELSE IF ~startsWith(req.type, PagePrefix) /\ ~startsWith(req.type, DatabasePrefix) THEN 200
    ELSE IF req.parent = <<>> THEN 400
    ELSE 0

\* a request arrives while no other invocation is in flight
HttpRequest(i, req) ==
    /\ Quiet /\ FreeSlot(i)
    /\ clock + DelayMs(env) <= HorizonMs
    /\ LET r == [Idle EXCEPT !.kind = "webhook", !.request = <<req>>]
           status == Gate(req)
       IN  inv' = [inv EXCEPT ![i] =
                IF status = 0
                THEN [r EXCEPT !.pc = "w_list", !.raw = req.parent,
                               !.databaseId = formatNotionId(req.parent)]
                ELSE IF status = 1 THEN [r EXCEPT !.pc = "w_verify"]
                ELSE Respond(r, status)]
    /\ UNCHANGED Others

\* handleVerificationRequest: await sendTelegramMessage(...), then 200
WebhookVerify(i) ==
    /\ inv[i].kind = "webhook" /\ inv[i].pc = "w_verify"
    /\ \E sent \in BOOLEAN : inv' = [inv EXCEPT ![i] = Notified(@, sent)]
    /\ UNCHANGED Others

NextHttp ==
    \/ Tick
    \/ \E i \in InvIds :
          \/ \E req \in Requests : HttpRequest(i, req)
          \/ WebhookVerify(i)
          \/ WebhookLookup(i)
          \/ WebhookRead(i)
          \/ WebhookPut(i)
          \/ WebhookCheck(i)
          \/ WebhookDispatch(i)
          \/ WebhookClear(i)
          \/ WebhookNotify(i)
          \/ StartSweep(i)
          \/ SweepStep(i)
          \/ Return(i)

SpecHttp == Init /\ [][NextHttp]_vars

\* the request is not a POST, has no signature, is a verification handshake,
\* or its event type starts with neither "page." nor "database."
NonQualifying(req) ==
    \/ req.method # "POST"
    \/ ~req.signed
    \/ req.json /\ req.verification
    \/ req.json /\ ~startsWith(req.type, PagePrefix) /\ ~startsWith(req.type, DatabasePrefix)

\* the request that invocation i handles, before or after the step
RequestOf(i) == IF inv'[i].request # <<>> THEN inv'[i].request ELSE inv[i].request

\* C34: every step of the handler of a request that is not a POST, is
\* unsigned, is a verification handshake or has an event type outside page.*
\* and database.*, its arrival included, leaves every trigger record and the
\* dispatch count as they were; such a handler reads no registry, is never at
\* updateTriggerStatus or at a dispatch call and has dispatched nothing.
C34_NonQualifyingNoEffect ==
    [][\A i \in InvIds :
          ( /\ inv'[i] # inv[i]
            /\ RequestOf(i) # <<>>
            /\ NonQualifying(RequestOf(i)[1]) ) =>
                /\ triggers' = triggers
                /\ fired' = fired
                /\ lastNotify' = lastNotify
                /\ inv'[i].pc \in {"w_verify", "done", "idle"}
                /\ inv'[i].dispatched = {}]_vars

\* a verification handshake has been answered while a pending record of an
\* earlier update is in the store
C34_Witness ==
    \E i \in InvIds :
        /\ inv[i].kind = "webhook" /\ inv[i].pc = "done" /\ inv[i].status = 200
        /\ inv[i].request # <<>> /\ inv[i].request[1].verification
        /\ HasRecord(formatNotionId(inv[i].request[1].parent))
        /\ Record(formatNotionId(inv[i].request[1].parent)).pending

----------------------------------------------------------------------------
\* invocation i is the handler of a /bind command
Bind(i) == inv[i].kind = "telegram" /\ inv[i].query = "bind"

\* invocation i has just moved to pc `to`
Enters(i, to) == inv'[i].pc = to /\ inv[i].pc # to

\* C35: a /bind for a database the registry does not hold reaches its
\* validation dispatch only from the administrator, with a well-formed id,
\* after the Notion lookup has succeeded and with a token configured; it
\* reaches addNotionDatabase only when that dispatch has returned; the entry
\* is added, with the repository of the command, by the last step of
\* addNotionDatabase and by no other; and every step of such a bind that
\* meets a failure, or ends the handler before that step, leaves the registry
\* as it was.
C35_BindAllOrNothing ==
    [][\A i \in InvIds :
          (Bind(i) /\ inv'[i] # inv[i] /\ find(registry, inv[i].databaseId) = <<>>) =>
              /\ Enters(i, "t_validate") =>
                    /\ inv[i].pc = "t_list"
                    /\ inv[i].from = env.TELEGRAM_ADMIN_USER_ID
                    /\ inv[i].raw # <<>> /\ inv[i].raw = formatDatabaseId(inv[i].raw)
                    /\ env.GITHUB_TOKEN # ""
                    /\ inv'[i].failed = {}
              /\ Enters(i, "t_add_get") =>
                    /\ inv[i].pc = "t_validate"
                    /\ inv[i].databaseId \in inv'[i].dispatched
                    /\ inv'[i].failed = {}
              /\ Enters(i, "t_add_put") => inv[i].pc = "t_add_get" /\ inv'[i].failed = {}
              /\ inv'[i].pc \notin {"t_upd_get", "t_upd_put"}
              /\ registry' # registry =>
                    /\ inv[i].pc = "t_add_put"
                    /\ inv[i].databaseId \in inv[i].dispatched
                    /\ inv'[i].failed = {}
                    /\ registry' = Append(registry, Db(inv[i].raw, inv[i].repoId))
              /\ (inv'[i].failed # {} \/ inv[i].pc # "t_add_put") => registry' = registry]_vars

\* a /bind of a new database has gone through: validated, added, answered
C35_Witness ==
    \E i \in InvIds :
        /\ Bind(i) /\ inv[i].pc = "done" /\ inv[i].failed = {}
        /\ inv[i].databaseId \in inv[i].dispatched
        /\ find(InitialRegistry, inv[i].databaseId) = <<>>
        /\ find(registry, inv[i].databaseId) = <<Db(inv[i].raw, inv[i].repoId)>>
        /\ Len(registry) = Len(InitialRegistry) + 1

----------------------------------------------------------------------------
(* models/notionDatabase.ts: addNotionDatabase, updateNotionDatabase and
   deleteNotionDatabase called one after another, each from its read of the
   list to its write *)

\* the ids the calls are given: one id with and without its hyphen, and two others
RegistryRawIds == { <<"a", "-", "1">>, <<"a", "1">>, <<"m">>, <<"x">> }

\* the call that has just returned: its name, its arguments and whether it threw
Call(op, raw, repoId, threw) ==
    [Idle EXCEPT !.kind = "registry", !.pc = "done", !.query = op, !.raw = raw,
                 !.repoId = repoId, !.databaseId = formatDatabaseId(raw),
                 !.status = IF threw THEN 500 ELSE 200]

AddCall(raw, repoId, ok) ==
    /\ Len(registry) < MaxEntries
    /\ registry' = IF ok THEN addEntry(registry, Db(raw, repoId)) ELSE registry
    /\ inv' = [inv EXCEPT ![1] = Call("add", raw, repoId, ~ok)]
    /\ UNCHANGED BotRest

\* updateNotionDatabase throws when findIndex answers -1
UpdateCall(raw, repoId, ok) ==
    LET index == findIndex(registry, formatDatabaseId(raw))
    IN  /\ registry' = IF ok /\ index > 0 THEN updateEntry(registry, index, repoId)
                       ELSE registry
        /\ inv' = [inv EXCEPT ![1] = Call("update", raw, repoId, ~ok \/ index = 0)]
        /\ UNCHANGED BotRest

DeleteCall(raw, ok) ==
    /\ registry' = IF ok THEN deleteEntry(registry, formatDatabaseId(raw)) ELSE registry
    /\ inv' = [inv EXCEPT ![1] = Call("delete", raw, <<>>, ~ok)]
    /\ UNCHANGED BotRest

InitRegistry ==
    /\ clock = 0
    /\ env \in BotEnvs
    /\ registry \in { <<>>, SubSeq(InitialRegistry, 1, 2) }
    /\ triggers = <<>>
    /\ inv = [j \in InvIds |-> Idle]
    /\ lastNotify = [d \in Ids |-> -1]
    /\ fired = [d \in Ids |-> 0]
    /\ delFailed = [d \in Ids |-> FALSE]
    /\ manual = [d \in Ids |-> 0]

NextRegistry ==
    \E raw \in RegistryRawIds, repoId \in BindRepoIds, ok \in BOOLEAN :
        \/ AddCall(raw, repoId, ok)
        \/ UpdateCall(raw, repoId, ok)
        \/ DeleteCall(raw, ok)

SpecRegistry == InitRegistry /\ [][NextRegistry]_vars

\* no two entries of the list have the same hyphen-stripped id
Unique(databases) ==
    \A m, n \in DOMAIN databases :
        formatDatabaseId(databases[m].id) = formatDatabaseId(databases[n].id) => m = n

\* the positions of the list whose entry has the hyphen-stripped id `formattedId`
Positions(databases, formattedId) ==
    { n \in DOMAIN databases : formatDatabaseId(databases[n].id) = formattedId }

\* C36: the registry holds at most one entry per hyphen-stripped id after every
\* call; a call that throws leaves it as it was; an add of an id that is there
\* replaces that entry in place, an add of a new id appends one entry; an
\* update of an absent id throws, an update of a present id changes the
\* repository of that entry only; a delete removes the entry of that id, and
\* that entry only, keeping the order of the others.
C36_RegistryUniqueness ==
    [][LET c == inv'[1]
           at == Positions(registry, c.databaseId)
       IN  /\ Unique(registry) /\ Unique(registry')
           /\ c.status = 500 => registry' = registry
           /\ (c.query = "add" /\ c.status = 200) =>
                 IF at # {}
                 THEN /\ Len(registry') = Len(registry)
                      /\ \A n \in DOMAIN registry :
                            registry'[n] = IF n \in at THEN Db(c.raw, c.repoId) ELSE registry[n]
                 ELSE registry' = Append(registry, Db(c.raw, c.repoId))
           /\ (c.query = "update" /\ at = {}) => c.status = 500
           /\ (c.query = "update" /\ c.status = 200) =>
                 /\ Len(registry') = Len(registry)
                 /\ \A n \in DOMAIN registry :
                       registry'[n] = IF n \in at
                                      THEN Db(registry[n].id, c.repoId) ELSE registry[n]
           /\ (c.query = "delete" /\ c.status = 200) =>
                 /\ Positions(registry', c.databaseId) = {}
                 /\ Len(registry') = Len(registry) - Cardinality(at)
                 /\ Cardinality(at) <= 1
                 /\ \A n \in DOMAIN registry :
                       n \notin at =>
                          registry'[n - Cardinality({ m \in at : m < n })] = registry[n]]_vars

\* an add under the unhyphenated id of an entry stored with a hyphen has
\* replaced that entry in place, next to another entry
C36_Witness ==
    /\ inv[1].kind = "registry" /\ inv[1].query = "add" /\ inv[1].status = 200
    /\ inv[1].raw = <<"a", "1">>
    /\ Len(registry) = 2
    /\ registry[1] = Db(<<"a", "1">>, inv[1].repoId)
    /\ registry[1] # InitialRegistry[1]

----------------------------------------------------------------------------
(* Telegram updates whose handlers overlap: each await of a handler is a step,
   and the steps of two handlers interleave *)

InitBotOverlap ==
    /\ clock = 0
    /\ env \in { e \in BotEnvs : e.TELEGRAM_ADMIN_USER_ID # "" /\ e.GITHUB_TOKEN # "" }
    /\ registry = InitialRegistry
    /\ triggers = <<>>
    /\ inv = [j \in InvIds |-> Idle]
    /\ lastNotify = [d \in Ids |-> -1]
    /\ fired = [d \in Ids |-> 0]
    /\ delFailed = [d \in Ids |-> FALSE]
    /\ manual = [d \in Ids |-> 0]

\* the administrator binds a new database or rebinds the last one, and
\* removes or triggers the first
NextBotOverlap ==
    \E i \in OverlapInvIds :
        \/ \E raw \in {<<"x">>, InitialRegistry[4].id} :
              TelegramArrive(i, "bind", env.TELEGRAM_ADMIN_USER_ID, raw, InitialRegistry[1].githubRepoId)
        \/ \E query \in {"confirm_remove", "confirm_trigger"} :
              TelegramArrive(i, query, env.TELEGRAM_ADMIN_USER_ID, InitialRegistry[1].id, <<>>)
        \/ TelegramStep(i)
        \/ Return(i)

SpecBotOverlap == InitBotOverlap /\ [][NextBotOverlap]_vars

\* the pcs of the kv.put of addNotionDatabase, updateNotionDatabase and deleteNotionDatabase
RegistryPutPcs == {"t_add_put", "t_upd_put", "t_del_put"}

\* C37: a registry write of one operation keeps the entry, or the absence, of
\* every other database as the store holds it, so that the effect of an
\* overlapping operation on another database is still there afterwards.
C37_NoLostRegistryChange ==
    [][\A i \in InvIds :
          (inv[i].pc \in RegistryPutPcs /\ inv'[i] # inv[i] /\ registry' # registry) =>
              \A k \in Ids :
                  k # inv[i].databaseId => find(registry', k) = find(registry, k)]_vars

----------------------------------------------------------------------------
(* telegram/bot.ts: createDatabaseButtons *)

PageSize == 5

\* Array.prototype.slice(start, end) on a list indexed from 0: negative
\* indexes count from the end, both are clamped to the list
slice(s, start, end) ==
    LET len == Len(s)
        from == IF start < 0 THEN (IF len + start < 0 THEN 0 ELSE len + start)
                ELSE IF start > len THEN len ELSE start
        to == IF end < 0 THEN (IF len + end < 0 THEN 0 ELSE len + end)
              ELSE IF end > len THEN len ELSE end
    IN  IF to <= from THEN <<>> ELSE SubSeq(s, from + 1, to)

\* the callback data of a database button: `${action}_${db.id}`
ButtonData(action, db) == <<action, db.id>>

\* A createDatabaseButtons that offers a next page when the list ends with the page
createDatabaseButtonsNextAtEnd(databases, action, page) ==
    LET startIndex == (page - 1) * PageSize
        endIndex == startIndex + PageSize
        pageDatabases == slice(databases, startIndex, endIndex)
    IN  [items |-> [n \in DOMAIN pageDatabases |-> ButtonData(action, pageDatabases[n])],
         prev |-> IF page > 1 THEN <<page - 1>> ELSE <<>>,
         next |-> IF endIndex <= Len(databases) THEN <<page + 1>> ELSE <<>>]

\* createDatabaseButtons: the buttons of the page, and the pages that the
\* previous-page and next-page buttons lead to, if they are there
createDatabaseButtons(databases, action, page) ==
    LET startIndex == (page - 1) * PageSize
        endIndex == startIndex + PageSize
        pageDatabases == slice(databases, startIndex, endIndex)
    IN  [items |-> [n \in DOMAIN pageDatabases |-> ButtonData(action, pageDatabases[n])],
         prev |-> IF page > 1 THEN <<page - 1>> ELSE <<>>,
         next |-> IF endIndex < Len(databases) THEN <<page + 1>> ELSE <<>>]

\* the lists that are paged: n databases with ids of their own
ListOf(n) ==
    [k \in 1 .. n |-> Db(<<"d", Digits[(k \div 10) + 1], Digits[(k % 10) + 1]>>, <<>>)]

ButtonActions == {"list_dbs", "remove_db", "trigger"}

Shown(action, page) ==
    [Idle EXCEPT !.kind = "buttons", !.pc = "done", !.query = action, !.idx = page,
                 !.keyboard = <<createDatabaseButtons(registry, action, page)>>]

\* /list, /remove, /trigger: createDatabaseButtons(databases, action), page 1
ListCommand(action) ==
    /\ inv' = [inv EXCEPT ![1] = Shown(action, 1)]
    /\ UNCHANGED Others

\* a page button is pressed: createDatabaseButtons(databases, action, page)
PageCallback(action, page) ==
    /\ inv' = [inv EXCEPT ![1] = Shown(action, page)]
    /\ UNCHANGED Others

InitButtons ==
    /\ clock = 0
    /\ env \in BotEnvs
    /\ registry \in { ListOf(n) : n \in 0 .. MaxDbs }
    /\ triggers = <<>>
    /\ inv = [j \in InvIds |-> Idle]
    /\ lastNotify = [d \in Ids |-> -1]
    /\ fired = [d \in Ids |-> 0]
    /\ delFailed = [d \in Ids |-> FALSE]
    /\ manual = [d \in Ids |-> 0]

NextButtons ==
    \E action \in ButtonActions :
        \/ ListCommand(action)
        \/ \E page \in 1 .. MaxPage : PageCallback(action, page)

SpecButtons == InitButtons /\ [][NextButtons]_vars

\* the pages on which the database at position m of the list has a button
PagesOf(databases, action, m) ==
    { q \in 1 .. (Len(databases) + 1) :
        \E n \in DOMAIN createDatabaseButtons(databases, action, q).items :
            createDatabaseButtons(databases, action, q).items[n] = ButtonData(action, databases[m]) }

\* C38: the keyboard of page p has the buttons of the databases at positions
\* 5(p-1)+1 to 5p of the list, in that order, as far as the list goes; it has
\* a previous-page button, leading to p-1, exactly when p > 1 and a next-page
\* button, leading to p+1, exactly when the list goes on after position 5p;
\* and every database of the list has its button on exactly one page.
C38_PaginationPartitions ==
    inv[1].kind = "buttons" =>
        LET p == inv[1].idx
            kb == inv[1].keyboard[1]
            last == IF 5 * p < Len(registry) THEN 5 * p ELSE Len(registry)
            count == IF last > 5 * (p - 1) THEN last - 5 * (p - 1) ELSE 0
        IN  /\ Len(kb.items) = count
            /\ \A n \in 1 .. count :
                  kb.items[n] = <<inv[1].query, registry[5 * (p - 1) + n].id>>
            /\ kb.prev = IF p > 1 THEN <<p - 1>> ELSE <<>>
            /\ kb.next = IF Len(registry) > 5 * p THEN <<p + 1>> ELSE <<>>
            /\ \A m \in DOMAIN registry :
                  PagesOf(registry, inv[1].query, m) = { ((m - 1) \div 5) + 1 }

\* the second page of a list of exactly ten databases: five buttons, a
\* previous-page button and no next-page button
C38_Witness ==
    /\ inv[1].kind = "buttons" /\ inv[1].idx = 2
    /\ Len(registry) = 10
    /\ Len(inv[1].keyboard[1].items) = 5
    /\ inv[1].keyboard[1].prev = <<1>>
    /\ inv[1].keyboard[1].next = <<>>

====
